---- MODULE Spec2Model ----
(***************************************************************************)
(* Model of solrpy's JSON response parsing (src/solrpy/core.py):           *)
(* JSONResponseParser (path compilation, path components, translation      *)
(* passes, response assembly) and the Response object it builds.           *)
(*                                                                         *)
(* Python values are tagged records [t, v]: t names the Python type and v  *)
(* carries the payload.  A dict is a function from key strings to values,  *)
(* a list is a sequence; list positions are Python positions (0-based).    *)
(***************************************************************************)
EXTENDS Integers, Sequences, FiniteSets, TLC

VARIABLES
    _translators,   \* JSONResponseParser._translators: <<[cpath, cb]>>
    data,           \* the tree as decoded by load_json, before translation
    obj,            \* __call__'s obj: the decoded tree, mutated in place
    params,         \* __call__'s params argument
    query,          \* __call__'s query argument
    pc,             \* position of the parse call
    ti,             \* translate(): position in self._translators (1-based)
    response,       \* what __call__ returned (None until then)
    exc,            \* the exception that left __call__, "" when none
    declared,       \* the translators argument JSONResponseParser was given
    objs,           \* translate()'s objects: the root objects, mutated in place
    calls,          \* the parse calls running concurrently on one parser
    posted,         \* the requests handed to Solr._post, oldest first
    index           \* the server: how many documents match the query

vars == <<_translators, data, obj, params, query, pc, ti, response, exc,
          declared, objs, calls, posted, index>>

----------------------------------------------------------------------------
(* Python values *)

JNull == [t |-> "null", v |-> 0]
JInt(n) == [t |-> "int", v |-> n]
JFloat(n) == [t |-> "float", v |-> n]
JStr(s) == [t |-> "str", v |-> s]
JList(s) == [t |-> "list", v |-> s]
JTuple(s) == [t |-> "tuple", v |-> s]
JMap(f) == [t |-> "map", v |-> f]
JBool(b) == [t |-> "bool", v |-> b]
\* an opaque Python object (a callable, object()), known by its identity
PyObject(id) == [t |-> "object", v |-> id]
\* a function usable as a path element, known by its name
Callable(name) == [t |-> "callable", v |-> name]

\* Python truth value of a value (`if not obj`, `params or {}`)
Truthy(x) ==
    CASE x.t = "null" -> FALSE
      [] x.t = "bool" -> x.v
      [] x.t = "int" -> x.v # 0
      [] x.t = "float" -> x.v # 0
      [] x.t = "str" -> x.v # ""
      [] x.t \in {"list", "tuple"} -> x.v # <<>>
      [] x.t = "map" -> DOMAIN x.v # {}
      [] OTHER -> TRUE

\* the order in which the keys of the decoded mappings are iterated
KeyOrder ==
    <<"responseHeader", "status", "response", "numFound", "start", "docs",
      "text", "term", "id", "hits", "name", "termVectors", "results",
      "header", "_params", "_query">>

\* dict.keys() / dict.items() order of a mapping
DictKeys(f) == SelectSeq(KeyOrder, LAMBDA k : k \in DOMAIN f)

\* f with key k removed (dict.pop's effect on the mapping)
DictDel(f, k) == [x \in (DOMAIN f) \ {k} |-> f[x]]

\* f with f[k] = v (dict.__setitem__)
DictSet(f, k, v) == [x \in (DOMAIN f) \cup {k} |-> IF x = k THEN v ELSE f[x]]

\* `name = value` followed by the statements that read the name
With(value, Rest(_)) == Rest(value)

----------------------------------------------------------------------------
(* Callables handed to the parser: transforms and key predicates *)

\* a call's outcome: the exception it raised ("" when none) and its value
Returned(x) == [exc |-> "", val |-> x]
Raised(e) == [exc |-> e, val |-> JNull]

\* the transforms of the test-suite, applied to a value:
\*   "len"  is  len
\*   "dec"  is  lambda x: x - 1
\*   "dbl"  is  lambda x: x * 2
CallTransform(cb, x) ==
    CASE cb = "len" ->
            CASE x.t = "str" -> Returned(JInt(Len(x.v)))
              [] x.t = "list" -> Returned(JInt(Len(x.v)))
              [] x.t = "map" -> Returned(JInt(Cardinality(DOMAIN x.v)))
              [] OTHER -> Raised("TypeError")
      [] cb = "dec" ->
            CASE x.t = "int" -> Returned(JInt(x.v - 1))
              [] x.t = "float" -> Returned(JFloat(x.v - 1))
              [] OTHER -> Raised("TypeError")
      [] cb = "dbl" ->
            CASE x.t = "int" -> Returned(JInt(x.v * 2))
              [] x.t = "float" -> Returned(JFloat(x.v * 2))
              [] x.t = "str" -> Returned(JStr(x.v \o x.v))
              [] x.t = "list" -> Returned(JList(x.v \o x.v))
              [] OTHER -> Raised("TypeError")

\* the key predicates of the test-suite, applied to a raw key:
\*   "eq1"            is  lambda k: k == 1
\*   "startswith_te"  is  lambda s: s.startswith('te')
CallPredicate(cb, k) ==
    CASE cb = "eq1" -> Returned(k.t = "int" /\ k.v = 1)
      [] cb = "startswith_te" ->
            IF k.t = "str"
            THEN Returned(Len(k.v) >= 2 /\ SubSeq(k.v, 1, 2) = "te")
            ELSE Raised("AttributeError")

----------------------------------------------------------------------------
(* Path components *)

Wildcard == [kind |-> "Wildcard", val |-> JNull]
Attribute(val) == [kind |-> "Attribute", val |-> val]
Matcher(cb) == [kind |-> "Matcher", val |-> cb]

\* compile_path keeping the order of the path it is given
compile_pathForward(path) ==
    [i \in 1..Len(path) |->
        LET component == path[i] IN
        IF component = JNull THEN Wildcard
        ELSE IF component.t = "callable" THEN Matcher(component)
        ELSE Attribute(component)]

\* compile_path: one component per path element, in reversed order
compile_path(path) ==
    [i \in 1..Len(path) |->
        LET component == path[Len(path) + 1 - i] IN
        IF component = JNull THEN Wildcard
        ELSE IF component.t = "callable" THEN Matcher(component)
        ELSE Attribute(component)]

\* JSONResponseParser.__init__: the compiled translators
CompileTranslators(translators) ==
    [i \in 1..Len(translators) |->
        [cpath |-> compile_path(translators[i].path), cb |-> translators[i].cb]]

\* obj[key] without Python's negative positions
SubscriptFromStart(node, key) ==
    CASE node.t = "map" ->
            IF key.t = "str" /\ key.v \in DOMAIN node.v
            THEN Returned(node.v[key.v]) ELSE Raised("KeyError")
      [] node.t = "list" ->
            IF key.t # "int" THEN Raised("TypeError")
            ELSE IF key.v >= 0 /\ key.v < Len(node.v)
                 THEN Returned(node.v[key.v + 1])
            ELSE Raised("IndexError")
      [] node.t = "str" ->
            IF key.t # "int" THEN Raised("TypeError")
            ELSE IF key.v >= 0 /\ key.v < Len(node.v)
                 THEN Returned(JStr(SubSeq(node.v, key.v + 1, key.v + 1)))
            ELSE Raised("IndexError")
      [] OTHER -> Raised("TypeError")

\* Python's obj[key]: the value, or the exception the lookup raises
Subscript(node, key) ==
    CASE node.t = "map" ->
            IF key.t = "str" /\ key.v \in DOMAIN node.v
            THEN Returned(node.v[key.v]) ELSE Raised("KeyError")
      [] node.t = "list" ->
            IF key.t # "int" THEN Raised("TypeError")
            ELSE IF key.v >= 0 /\ key.v < Len(node.v)
                 THEN Returned(node.v[key.v + 1])
            ELSE IF key.v < 0 /\ key.v >= 0 - Len(node.v)
                 THEN Returned(node.v[Len(node.v) + key.v + 1])
            ELSE Raised("IndexError")
      [] node.t = "str" ->
            IF key.t # "int" THEN Raised("TypeError")
            ELSE IF key.v >= 0 /\ key.v < Len(node.v)
                 THEN Returned(JStr(SubSeq(node.v, key.v + 1, key.v + 1)))
            ELSE IF key.v < 0 /\ key.v >= 0 - Len(node.v)
                 THEN Returned(JStr(SubSeq(node.v, Len(node.v) + key.v + 1,
                                           Len(node.v) + key.v + 1)))
            ELSE Raised("IndexError")
      [] OTHER -> Raised("TypeError")

\* Python's obj[key] = x on an existing key: the container afterwards, or
\* the exception the assignment raises
SetItem(node, key, x) ==
    CASE node.t = "map" -> Returned(JMap(DictSet(node.v, key.v, x)))
      [] node.t = "list" ->
            LET p == IF key.v < 0 THEN Len(node.v) + key.v + 1 ELSE key.v + 1
            IN  Returned(JList([node.v EXCEPT ![p] = x]))
      [] OTHER -> Raised("TypeError")

\* PathComponent.items: the keys of every entry of a dict or list, in order
BaseKeys(node) ==
    CASE node.t = "map" ->
            LET ks == DictKeys(node.v) IN [i \in 1..Len(ks) |-> JStr(ks[i])]
      [] node.t = "list" -> [i \in 1..Len(node.v) |-> JInt(i - 1)]
      [] OTHER -> <<>>

\* Attribute.values / Attribute.items: the one key looked up, unless the
\* lookup raises KeyError, IndexError or TypeError
AttributeKeys(val, node) ==
    IF Subscript(node, val).exc \in {"KeyError", "IndexError", "TypeError"}
    THEN <<>> ELSE <<val>>

\* Matcher.items yielding every entry, whatever cb says
MatcherKeysAll(cb, keys) == Returned(keys)

\* Matcher.items: the entries whose key satisfies cb, up to a raising call
RECURSIVE MatcherKeys(_, _)
MatcherKeys(cb, keys) ==
    IF keys = <<>> THEN Returned(<<>>)
    ELSE LET m == CallPredicate(cb.v, Head(keys)) IN
         IF m.exc # "" THEN Raised(m.exc)
         ELSE LET rest == MatcherKeys(cb, Tail(keys)) IN
              IF rest.exc # "" THEN rest
              ELSE Returned(IF m.val THEN <<Head(keys)>> \o rest.val
                            ELSE rest.val)

\* component.values(node) with a Wildcard that yields the first child only
ValueKeysFirst(component, node) ==
    CASE component.kind = "Wildcard" ->
            Returned(IF BaseKeys(node) = <<>> THEN <<>>
                     ELSE <<Head(BaseKeys(node))>>)
      [] component.kind = "Attribute" ->
            Returned(AttributeKeys(component.val, node))
      [] component.kind = "Matcher" ->
            MatcherKeys(component.val, BaseKeys(node))

\* component.values(node), as the keys of the children it yields
ValueKeys(component, node) ==
    CASE component.kind = "Wildcard" -> Returned(BaseKeys(node))
      [] component.kind = "Attribute" ->
            Returned(AttributeKeys(component.val, node))
      [] component.kind = "Matcher" ->
            MatcherKeys(component.val, BaseKeys(node))

----------------------------------------------------------------------------
(* Translation passes.  A node of the tree is named by its address: the    *)
(* keys leading to it from the tuple of root objects.                      *)

\* the node at an address
RECURSIVE GetAt(_, _)
GetAt(node, addr) ==
    IF addr = <<>> THEN node
    ELSE GetAt(Subscript(node, Head(addr)).val, Tail(addr))

\* the tree after the in-place assignment  (node at addr)[key] = x
RECURSIVE SetAt(_, _, _, _)
SetAt(node, addr, key, x) ==
    IF addr = <<>> THEN SetItem(node, key, x).val
    ELSE SetItem(node, Head(addr),
                 SetAt(Subscript(node, Head(addr)).val, Tail(addr), key, x)).val

\* new_objects after `for obj in objects: new_objects.extend(component.values(obj))`
RECURSIVE NewObjects(_, _, _)
NewObjects(top, objects, component) ==
    IF objects = <<>> THEN Returned(<<>>)
    ELSE LET ks == ValueKeys(component, GetAt(top, Head(objects))) IN
         IF ks.exc # "" THEN Raised(ks.exc)
         ELSE LET rest == NewObjects(top, Tail(objects), component) IN
              IF rest.exc # "" THEN rest
              ELSE Returned([i \in 1..Len(ks.val) |->
                                Append(Head(objects), ks.val[i])] \o rest.val)

\* the while loop of _translate, from Python index ind down to 1
RECURSIVE Descend(_, _, _, _)
Descend(top, objects, cpath, ind) ==
    IF ind = 0 THEN Returned(objects)
    ELSE IF ind < 0 THEN Raised("IndexError")
    ELSE LET new_objects == NewObjects(top, objects, cpath[ind + 1]) IN
         IF new_objects.exc # "" THEN new_objects
         ELSE Descend(top, new_objects.val, cpath, ind - 1)

\* the keys component.items(node) goes through before any filtering by cb
ItemKeys(component, node) ==
    IF component.kind = "Attribute"
    THEN AttributeKeys(component.val, node)
    ELSE BaseKeys(node)

\* the rewriting loop with the callback's exceptions caught and skipped
RECURSIVE RewriteCatching(_, _, _, _, _)
RewriteCatching(top, addr, keys, component, callback) ==
    IF keys = <<>> THEN [exc |-> "", val |-> top]
    ELSE LET key == Head(keys)
             m == IF component.kind = "Matcher"
                  THEN CallPredicate(component.val.v, key)
                  ELSE Returned(TRUE)
         IN  IF m.exc # "" THEN [exc |-> m.exc, val |-> top]
             ELSE IF ~m.val
                  THEN RewriteCatching(top, addr, Tail(keys), component,
                                       callback)
             ELSE LET node == GetAt(top, addr)
                      r == CallTransform(callback.v, Subscript(node, key).val)
                  IN  IF r.exc # "" \/ SetItem(node, key, r.val).exc # ""
                      THEN RewriteCatching(top, addr, Tail(keys), component,
                                           callback)
                      ELSE RewriteCatching(SetAt(top, addr, key, r.val), addr,
                                           Tail(keys), component, callback)

\* the rewriting loop with the callback's exception wrapped into an error
\* type of the parser's own
RECURSIVE RewriteWrapping(_, _, _, _, _)
RewriteWrapping(top, addr, keys, component, callback) ==
    IF keys = <<>> THEN [exc |-> "", val |-> top]
    ELSE LET key == Head(keys)
             m == IF component.kind = "Matcher"
                  THEN CallPredicate(component.val.v, key)
                  ELSE Returned(TRUE)
         IN  IF m.exc # "" THEN [exc |-> m.exc, val |-> top]
             ELSE IF ~m.val
                  THEN RewriteWrapping(top, addr, Tail(keys), component,
                                       callback)
             ELSE LET node == GetAt(top, addr)
                      r == CallTransform(callback.v, Subscript(node, key).val)
                  IN  IF r.exc # ""
                      THEN [exc |-> "TranslationError", val |-> top]
                      ELSE IF SetItem(node, key, r.val).exc # ""
                           THEN [exc |-> SetItem(node, key, r.val).exc,
                                 val |-> top]
                      ELSE RewriteWrapping(SetAt(top, addr, key, r.val), addr,
                                           Tail(keys), component, callback)

\* `for key, val in component.items(obj): obj[key] = callback(val)` over the
\* keys still to visit; the tree so far is kept when a call raises
RECURSIVE Rewrite(_, _, _, _, _)
Rewrite(top, addr, keys, component, callback) ==
    IF keys = <<>> THEN [exc |-> "", val |-> top]
    ELSE LET key == Head(keys)
             m == IF component.kind = "Matcher"
                  THEN CallPredicate(component.val.v, key)
                  ELSE Returned(TRUE)
         IN  IF m.exc # "" THEN [exc |-> m.exc, val |-> top]
             ELSE IF ~m.val
                  THEN Rewrite(top, addr, Tail(keys), component, callback)
             ELSE LET node == GetAt(top, addr)
                      r == CallTransform(callback.v, Subscript(node, key).val)
                  IN  IF r.exc # "" THEN [exc |-> r.exc, val |-> top]
                      ELSE IF SetItem(node, key, r.val).exc # ""
                           THEN [exc |-> SetItem(node, key, r.val).exc,
                                 val |-> top]
                      ELSE Rewrite(SetAt(top, addr, key, r.val), addr,
                                   Tail(keys), component, callback)

\* the final loop of _translate over the objects reached
RECURSIVE RewriteAll(_, _, _, _)
RewriteAll(top, objects, component, callback) ==
    IF objects = <<>> THEN [exc |-> "", val |-> top]
    ELSE LET r == Rewrite(top, Head(objects),
                          ItemKeys(component, GetAt(top, Head(objects))),
                          component, callback)
         IN  IF r.exc # "" THEN r
             ELSE RewriteAll(r.val, Tail(objects), component, callback)

\* _translate(objects, cpath, callback): the root objects afterwards and
\* the exception that ended the pass, if any
_translate(objects, cpath, callback) ==
    LET top == JList(objects)
        roots == [i \in 1..Len(objects) |-> <<JInt(i - 1)>>]
        reached == Descend(top, roots, cpath, Len(cpath) - 1)
    IN  IF reached.exc # "" THEN [exc |-> reached.exc, val |-> objects]
        ELSE LET r == RewriteAll(top, reached.val, cpath[1], callback)
             IN  [exc |-> r.exc, val |-> r.val.v]

----------------------------------------------------------------------------
(* Response objects *)

\* Response.__init__: the instance attributes of a fresh Response
NewResponse ==
    [a \in {"header", "results", "_query", "_params"} |->
        CASE a = "header" -> JMap(<<>>)
          [] a = "results" -> JList(<<>>)
          [] a = "_query" -> JNull
          [] a = "_params" -> JMap(<<>>)]

\* Response._set_params
_set_params(self, p, q) ==
    DictSet(DictSet(self, "_query", q), "_params",
            IF Truthy(p) THEN p ELSE JMap(<<>>))

Digits == <<"0", "1", "2", "3", "4", "5", "6", "7", "8", "9">>
IsDigit(c) == \E d \in 1..Len(Digits) : Digits[d] = c
DigitValue(c) == (CHOOSE d \in 1..Len(Digits) : Digits[d] = c) - 1

RECURSIVE AllDigits(_)
AllDigits(s) ==
    s = "" \/ (IsDigit(SubSeq(s, 1, 1)) /\ AllDigits(SubSeq(s, 2, Len(s))))

RECURSIVE DigitsValue(_, _)
DigitsValue(s, acc) ==
    IF s = "" THEN acc
    ELSE DigitsValue(SubSeq(s, 2, Len(s)),
                     acc * 10 + DigitValue(SubSeq(s, 1, 1)))

\* int(value), for the values a decoded tree holds (digit strings only)
PyInt(x) ==
    CASE x.t = "int" -> Returned(x)
      [] x.t = "float" -> Returned(JInt(x.v))
      [] x.t = "str" ->
            IF x.v # "" /\ AllDigits(x.v)
            THEN Returned(JInt(DigitsValue(x.v, 0)))
            ELSE Raised("ValueError")
      [] OTHER -> Raised("TypeError")

\* float(value), likewise
PyFloat(x) ==
    CASE x.t = "int" -> Returned(JFloat(x.v))
      [] x.t = "float" -> Returned(x)
      [] x.t = "str" ->
            IF x.v # "" /\ AllDigits(x.v)
            THEN Returned(JFloat(DigitsValue(x.v, 0)))
            ELSE Raised("ValueError")
      [] OTHER -> Raised("TypeError")

\* setattr(response, k, v): numFound, start and maxScore are properties
\* whose setters convert and store under _numFound, _start and _maxScore
SetAttr(self, k, v) ==
    CASE k = "numFound" ->
            IF PyInt(v).exc # "" THEN Raised(PyInt(v).exc)
            ELSE Returned(DictSet(self, "_numFound", PyInt(v).val))
      [] k = "start" ->
            IF PyInt(v).exc # "" THEN Raised(PyInt(v).exc)
            ELSE Returned(DictSet(self, "_start", PyInt(v).val))
      [] k = "maxScore" ->
            IF PyFloat(v).exc # "" THEN Raised(PyFloat(v).exc)
            ELSE Returned(DictSet(self, "_maxScore", PyFloat(v).val))
      [] OTHER -> Returned(DictSet(self, k, v))

\* dict.items() as a sequence of <<key, value>>
DictItems(f) == [i \in 1..Len(DictKeys(f)) |-> <<DictKeys(f)[i], f[DictKeys(f)[i]]>>]

\* the same loop without the test for 'name'
RECURSIVE SetAttrsAll(_, _)
SetAttrsAll(self, items) ==
    IF items = <<>> THEN Returned(self)
    ELSE LET r == SetAttr(self, Head(items)[1], Head(items)[2]) IN
         IF r.exc # "" THEN r ELSE SetAttrsAll(r.val, Tail(items))

\* `for k, v in ...: if k != 'name': setattr(response, k, v)`
RECURSIVE SetAttrs(_, _)
SetAttrs(self, items) ==
    IF items = <<>> THEN Returned(self)
    ELSE IF Head(items)[1] = "name" THEN SetAttrs(self, Tail(items))
    ELSE LET r == SetAttr(self, Head(items)[1], Head(items)[2]) IN
         IF r.exc # "" THEN r ELSE SetAttrs(r.val, Tail(items))

\* x.pop(k, default): the value popped and x afterwards, or the exception
\* raised when x is not a dict
Pop(x, k, default) ==
    CASE x.t = "map" ->
            IF k \in DOMAIN x.v
            THEN [exc |-> "", val |-> x.v[k], rest |-> JMap(DictDel(x.v, k))]
            ELSE [exc |-> "", val |-> default, rest |-> x]
      [] x.t = "list" -> [exc |-> "TypeError", val |-> JNull, rest |-> x]
      [] OTHER -> [exc |-> "AttributeError", val |-> JNull, rest |-> x]

\* a Response object with the given instance attributes
ResponseObject(attrs) == [t |-> "Response", v |-> attrs]

\* JSONResponseParser.__call__ from `response = Response()` on: what is
\* returned, the exception raised, and obj afterwards
BuildResponse(o, p, q) ==
    LET r0 == _set_params(NewResponse, p, q)
        hdr == Pop(o, "responseHeader", JNull)
    IN  IF hdr.exc # "" THEN [exc |-> hdr.exc, val |-> JNull, obj |-> o]
        ELSE
        LET r1 == DictSet(r0, "header", hdr.val)
            rd == Pop(hdr.rest, "response", JMap(<<>>))
            docs == Pop(rd.val, "docs", JList(<<>>))
        IN  IF docs.exc # ""
            THEN [exc |-> docs.exc, val |-> JNull, obj |-> rd.rest]
            ELSE
            LET r2 == DictSet(r1, "results", docs.val)
                r3 == SetAttrs(r2, DictItems(docs.rest.v) \o DictItems(rd.rest.v))
            IN  IF r3.exc # ""
                THEN [exc |-> r3.exc, val |-> JNull, obj |-> rd.rest]
                ELSE [exc |-> "", val |-> ResponseObject(r3.val),
                      obj |-> rd.rest]

\* a parse call that omits `if not obj: return`
AssembleUnchecked(o, p, q) == BuildResponse(o, p, q)

\* JSONResponseParser.__call__ from `if not obj` on
Assemble(o, p, q) ==
    IF ~Truthy(o) THEN [exc |-> "", val |-> JNull, obj |-> o]
    ELSE BuildResponse(o, p, q)

----------------------------------------------------------------------------
(* The parsers constructed and the inputs of a parse call *)

MaxDocs == 2
MaxTranslators == 2

SeqsUpTo(S, n) == UNION {[1..k -> S] : k \in 0..n}

\* paths and transforms of the declared translators
TextPath == <<JStr("response"), JStr("docs"), JNull, JStr("text")>>
IndexPath(n) == <<JStr("response"), JStr("docs"), JInt(n), JStr("text")>>
CallbackPath ==
    <<JStr("response"), JStr("docs"), Callable("eq1"), JStr("text")>>
CallbackLeafPath ==
    <<JStr("response"), JStr("docs"), JNull, Callable("startswith_te")>>

Translator(path, cb) == [path |-> path, cb |-> Callable(cb)]

Translators ==
    { Translator(TextPath, "len"), Translator(TextPath, "dec"),
      Translator(IndexPath(1), "len"), Translator(IndexPath(-1), "len"),
      Translator(CallbackPath, "len"), Translator(CallbackLeafPath, "dbl") }

TranslatorLists == SeqsUpTo(Translators, MaxTranslators)

\* documents
Doc1 == JMap([text |-> JStr("hello"), term |-> JStr("x"), id |-> JStr("a"),
              hits |-> JInt(5)])
Doc2 == JMap([text |-> JStr("bye"), id |-> JStr("b")])
Doc3 == JMap([id |-> JStr("c"), hits |-> JInt(1)])
Doc4 == JMap([text |-> JInt(3), id |-> JStr("d")])
Documents == {Doc1, Doc2, Doc3, Doc4}
DocLists == SeqsUpTo(Documents, MaxDocs)

Header == [responseHeader |-> JMap([status |-> JInt(0)])]
Absent == [k \in {} |-> JNull]

\* query responses: a header, the matches and their count
QueryTrees ==
    { JMap(Header @@ [response |->
                JMap([numFound |-> JInt(Len(docs)), start |-> JInt(0),
                      docs |-> JList(docs)])]) : docs \in DocLists }

\* values of the response key
ResponseValues ==
    { JMap(Absent),
      JMap([docs |-> JList(<<Doc1>>)]),
      JMap([numFound |-> JInt(1), start |-> JInt(0)]),
      JMap([numFound |-> JStr("12"), start |-> JInt(0), docs |-> JList(<<Doc1>>)]),
      JMap([numFound |-> JStr("many"), docs |-> JList(<<Doc1>>)]),
      JMap([name |-> JStr("response"), docs |-> JList(<<Doc1>>)]),
      JMap([numFound |-> JInt(1), start |-> JInt(0), docs |-> JList(<<Doc1>>),
            termVectors |-> JStr("inner")]),
      JList(<<Doc1>>),
      JNull }

\* further top-level keys
Extensions ==
    { Absent,
      [termVectors |-> JStr("some data")],
      [name |-> JStr("noise")],
      [numFound |-> JInt(7)],
      [results |-> JStr("other")],
      [header |-> JStr("other")],
      [_params |-> JStr("other")],
      [_query |-> JStr("other")] }

\* trees of every top-level shape
ShapeTrees ==
    { JMap(h @@ r @@ e) :
        h \in {Absent, Header},
        r \in {Absent} \cup {[response |-> v] : v \in ResponseValues},
        e \in Extensions }
    \cup { JList(<<>>), JList(<<Doc1>>), JStr(""), JStr("text"), JInt(0),
           JInt(1), JNull }

Trees == QueryTrees \cup ShapeTrees

\* the params and query arguments of a parse call
Requests ==
    { [params |-> JNull, query |-> JNull],
      [params |-> JMap(Absent), query |-> PyObject("query")],
      [params |-> JMap([q |-> JStr("text:x"), rows |-> JStr("2")]),
       query |-> PyObject("query")] }

----------------------------------------------------------------------------
(* The state machine: a parser is constructed, then called once *)

Init ==
    /\ declared \in TranslatorLists
    /\ _translators = CompileTranslators(declared)
    /\ objs = <<>>
    /\ calls = <<>>
    /\ posted = <<>>
    /\ index = 0
    /\ data = JNull
    /\ obj = JNull
    /\ params = JNull
    /\ query = JNull
    /\ pc = "constructed"
    /\ ti = 0
    /\ response = JNull
    /\ exc = ""

\* __call__(data, params, query) up to `obj = self._load_json(data)`
Call(tree, req) ==
    /\ pc = "constructed"
    /\ data' = tree
    /\ obj' = tree
    /\ params' = req.params
    /\ query' = req.query
    /\ pc' = "translate"
    /\ ti' = 1
    /\ UNCHANGED <<_translators, response, exc>>
    /\ UNCHANGED <<declared, objs, calls, posted, index>>

\* translate() going through self._translators from the last to the first
TranslateReversed ==
    /\ pc = "translate"
    /\ ti <= Len(_translators)
    /\ LET translator == _translators[Len(_translators) + 1 - ti]
           r == _translate(<<obj>>, translator.cpath, translator.cb)
       IN  /\ obj' = r.val[1]
           /\ exc' = r.exc
           /\ IF r.exc # ""
              THEN pc' = "raised" /\ ti' = ti
              ELSE pc' = "translate" /\ ti' = ti + 1
    /\ UNCHANGED <<_translators, data, params, query, response>>
    /\ UNCHANGED <<declared, objs, calls, posted, index>>

\* translate(): one iteration of `for translator in self._translators`
Translate ==
    /\ pc = "translate"
    /\ ti <= Len(_translators)
    /\ LET translator == _translators[ti]
           r == _translate(<<obj>>, translator.cpath, translator.cb)
       IN  /\ obj' = r.val[1]
           /\ exc' = r.exc
           /\ IF r.exc # ""
              THEN pc' = "raised" /\ ti' = ti
              ELSE pc' = "translate" /\ ti' = ti + 1
    /\ UNCHANGED <<_translators, data, params, query, response>>
    /\ UNCHANGED <<declared, objs, calls, posted, index>>

\* __call__ after self.translate(obj)
Return ==
    /\ pc = "translate"
    /\ ti > Len(_translators)
    /\ LET r == Assemble(obj, params, query)
       IN  /\ obj' = r.obj
           /\ exc' = r.exc
           /\ response' = r.val
           /\ pc' = IF r.exc # "" THEN "raised" ELSE "returned"
    /\ UNCHANGED <<_translators, data, params, query, ti>>
    /\ UNCHANGED <<declared, objs, calls, posted, index>>

Next ==
    \/ \E tree \in Trees, req \in Requests : Call(tree, req)
    \/ Translate
    \/ Return

Spec == Init /\ [][Next]_vars

----------------------------------------------------------------------------
(* translate() called on a parser with one translator, over paths         *)
(* of every make-up and roots of every shape                               *)

MaxPath == 2

\* what a path is made of: None, keys, positions and key predicates
PathElements ==
    { JNull, JStr("text"), JStr("docs"), JInt(0), JInt(-1), JInt(7),
      Callable("eq1"), Callable("startswith_te") }

Paths == SeqsUpTo(PathElements, MaxPath)

PassTranslatorLists ==
    {<<>>} \cup { <<Translator(path, cb)>> : path \in Paths, cb \in {"dbl", "len"} }

\* roots: mappings, sequences and scalars, strings at every depth
Root1 == JMap([text |-> JStr("hello"), hits |-> JInt(5),
               docs |-> JList(<<JStr("ab"), JInt(3)>>)])
Root2 == JList(<<JStr("x"), JList(<<JInt(1), JInt(2)>>)>>)
Root3 == JMap([docs |-> JList(<<Doc1, Doc3>>)])

RootTuples ==
    { <<Root1>>, <<Root2>>, <<Root3>>, <<JStr("text")>>, <<JInt(1)>>,
      <<JNull>>, <<Root1, Root2>>, <<JStr("text"), Root3>> }

PassInit ==
    /\ declared \in PassTranslatorLists
    /\ _translators = CompileTranslators(declared)
    /\ objs = <<>>
    /\ calls = <<>>
    /\ posted = <<>>
    /\ index = 0
    /\ data = JNull
    /\ obj = JNull
    /\ params = JNull
    /\ query = JNull
    /\ pc = "constructed"
    /\ ti = 0
    /\ response = JNull
    /\ exc = ""

\* translate() is entered with its roots; data keeps the roots as they were given
TranslateCall(roots) ==
    /\ pc = "constructed"
    /\ objs' = roots
    /\ data' = JList(roots)
    /\ pc' = "translate"
    /\ ti' = 1
    /\ UNCHANGED <<_translators, declared, obj, params, query, response, exc>>
    /\ UNCHANGED <<calls, posted, index>>

\* translate(): one iteration of `for translator in self._translators`
TranslatePass ==
    /\ pc = "translate"
    /\ ti <= Len(_translators)
    /\ LET translator == _translators[ti]
           r == _translate(objs, translator.cpath, translator.cb)
       IN  /\ objs' = r.val
           /\ exc' = r.exc
           /\ IF r.exc # ""
              THEN pc' = "raised" /\ ti' = ti
              ELSE pc' = "translate" /\ ti' = ti + 1
    /\ UNCHANGED <<_translators, declared, data, obj, params, query, response>>
    /\ UNCHANGED <<calls, posted, index>>

\* translate() returns once every translator has run
TranslateReturn ==
    /\ pc = "translate"
    /\ ti > Len(_translators)
    /\ pc' = "returned"
    /\ UNCHANGED <<_translators, declared, data, obj, objs, params, query, ti,
                   response, exc>>
    /\ UNCHANGED <<calls, posted, index>>

PassNext ==
    \/ \E roots \in RootTuples : TranslateCall(roots)
    \/ TranslatePass
    \/ TranslateReturn

PassSpec == PassInit /\ [][PassNext]_vars

----------------------------------------------------------------------------
(* Several parse calls running at once on one parser, each with a tree of  *)
(* its own.  A call holds nothing but its locals between two passes, so a  *)
(* pass is taken as one step of the call.                                  *)

MaxCalls == 2

Callers == 1..MaxCalls

ConcurrentTranslatorLists ==
    SeqsUpTo({ Translator(TextPath, "len"), Translator(TextPath, "dec"),
               Translator(CallbackLeafPath, "dbl") }, MaxTranslators)

QueryTree(docs) ==
    JMap(Header @@ [response |->
            JMap([numFound |-> JInt(Len(docs)), start |-> JInt(0),
                  docs |-> JList(docs)])])

ConcurrentTrees ==
    { QueryTree(<<Doc1>>), QueryTree(<<Doc4>>), QueryTree(<<Doc2, Doc1>>) }

ConcurrentRequest ==
    [params |-> JMap([q |-> JStr("text:x"), rows |-> JStr("2")]),
     query |-> PyObject("query")]

\* the locals of a call that has not been made yet
IdleCall ==
    [data |-> JNull, obj |-> JNull, params |-> JNull, query |-> JNull,
     pc |-> "idle", ti |-> 0, response |-> JNull, exc |-> ""]

ConcurrentInit ==
    /\ declared \in ConcurrentTranslatorLists
    /\ _translators = CompileTranslators(declared)
    /\ calls = [c \in Callers |-> IdleCall]
    /\ objs = <<>>
    /\ posted = <<>>
    /\ index = 0
    /\ data = JNull
    /\ obj = JNull
    /\ params = JNull
    /\ query = JNull
    /\ pc = "constructed"
    /\ ti = 0
    /\ response = JNull
    /\ exc = ""

\* caller c enters __call__(data, params, query)
ConcurrentCall(c, tree, req) ==
    /\ calls[c].pc = "idle"
    /\ calls' = [calls EXCEPT ![c] =
            [data |-> tree, obj |-> tree, params |-> req.params,
             query |-> req.query, pc |-> "translate", ti |-> 1,
             response |-> JNull, exc |-> ""]]
    /\ UNCHANGED <<_translators, declared, objs, posted, index>>
    /\ UNCHANGED <<data, obj, params, query, pc, ti, response, exc>>

\* a pass that pops the components it has matched off the compiled path
\* it shares with the other calls, leaving the leaf component
ConcurrentTranslateConsuming(c) ==
    /\ calls[c].pc = "translate"
    /\ calls[c].ti <= Len(_translators)
    /\ LET translator == _translators[calls[c].ti]
           r == _translate(<<calls[c].obj>>, translator.cpath, translator.cb)
       IN  /\ calls' = [calls EXCEPT
                  ![c].obj = r.val[1],
                  ![c].exc = r.exc,
                  ![c].pc = IF r.exc # "" THEN "raised" ELSE "translate",
                  ![c].ti = IF r.exc # "" THEN @ ELSE @ + 1]
           /\ _translators' = [_translators EXCEPT
                  ![calls[c].ti].cpath = SubSeq(@, 1, 1)]
    /\ UNCHANGED <<declared, objs, posted, index>>
    /\ UNCHANGED <<data, obj, params, query, pc, ti, response, exc>>

\* translate() of caller c: one iteration over self._translators
ConcurrentTranslate(c) ==
    /\ calls[c].pc = "translate"
    /\ calls[c].ti <= Len(_translators)
    /\ LET translator == _translators[calls[c].ti]
           r == _translate(<<calls[c].obj>>, translator.cpath, translator.cb)
       IN  calls' = [calls EXCEPT
                  ![c].obj = r.val[1],
                  ![c].exc = r.exc,
                  ![c].pc = IF r.exc # "" THEN "raised" ELSE "translate",
                  ![c].ti = IF r.exc # "" THEN @ ELSE @ + 1]
    /\ UNCHANGED <<_translators, declared, objs, posted, index>>
    /\ UNCHANGED <<data, obj, params, query, pc, ti, response, exc>>

\* __call__ of caller c after self.translate(obj)
ConcurrentReturn(c) ==
    /\ calls[c].pc = "translate"
    /\ calls[c].ti > Len(_translators)
    /\ LET r == Assemble(calls[c].obj, calls[c].params, calls[c].query)
       IN  calls' = [calls EXCEPT
                  ![c].obj = r.obj,
                  ![c].exc = r.exc,
                  ![c].response = r.val,
                  ![c].pc = IF r.exc # "" THEN "raised" ELSE "returned"]
    /\ UNCHANGED <<_translators, declared, objs, posted, index>>
    /\ UNCHANGED <<data, obj, params, query, pc, ti, response, exc>>

ConcurrentNext ==
    \E c \in Callers :
        \/ \E tree \in ConcurrentTrees : ConcurrentCall(c, tree, ConcurrentRequest)
        \/ ConcurrentTranslate(c)
        \/ ConcurrentReturn(c)

ConcurrentSpec == ConcurrentInit /\ [][ConcurrentNext]_vars

\* translate(obj) run from translator k on with nothing else running
RECURSIVE TranslateAlone(_, _, _)
TranslateAlone(translators, k, tree) ==
    IF k > Len(translators) THEN [exc |-> "", val |-> tree]
    ELSE With(_translate(<<tree>>, translators[k].cpath, translators[k].cb),
              LAMBDA r :
                  IF r.exc # "" THEN [exc |-> r.exc, val |-> r.val[1]]
                  ELSE TranslateAlone(translators, k + 1, r.val[1]))

\* __call__(tree, p, q) run with nothing else running
CallAlone(translators, tree, p, q) ==
    With(TranslateAlone(translators, 1, tree),
         LAMBDA t :
             IF t.exc # "" THEN [exc |-> t.exc, val |-> JNull, obj |-> t.val]
             ELSE Assemble(t.val, p, q))

----------------------------------------------------------------------------
(* Strings *)

\* str(n) of a natural number
RECURSIVE IntToStr(_)
IntToStr(n) ==
    IF n < 10 THEN Digits[n + 1]
    ELSE IntToStr(n \div 10) \o Digits[(n % 10) + 1]

\* s.replace(a, b) for one-character a
RECURSIVE Replace(_, _, _)
Replace(s, a, b) ==
    IF s = "" THEN ""
    ELSE (IF SubSeq(s, 1, 1) = a THEN b ELSE SubSeq(s, 1, 1))
            \o Replace(SubSeq(s, 2, Len(s)), a, b)

\* s.split(c): the pieces between the occurrences of c, empty ones included
RECURSIVE SplitOn(_, _, _)
SplitOn(s, c, piece) ==
    IF s = "" THEN <<piece>>
    ELSE IF SubSeq(s, 1, 1) = c
         THEN <<piece>> \o SplitOn(SubSeq(s, 2, Len(s)), c, "")
    ELSE SplitOn(SubSeq(s, 2, Len(s)), c, piece \o SubSeq(s, 1, 1))

\* s.split(): the words between runs of blanks
Words(s) == SelectSeq(SplitOn(s, " ", ""), LAMBDA w : w # "")

\* s.strip() of blanks
RECURSIVE Strip(_)
Strip(s) ==
    IF s = "" THEN ""
    ELSE IF SubSeq(s, 1, 1) = " " THEN Strip(SubSeq(s, 2, Len(s)))
    ELSE IF SubSeq(s, Len(s), Len(s)) = " " THEN Strip(SubSeq(s, 1, Len(s) - 1))
    ELSE s

\* s.endswith(suffix)
EndsWith(s, suffix) ==
    Len(s) >= Len(suffix) /\ SubSeq(s, Len(s) - Len(suffix) + 1, Len(s)) = suffix

\* sep.join(strings)
RECURSIVE Join(_, _)
Join(strings, sep) ==
    IF strings = <<>> THEN ""
    ELSE IF Len(strings) = 1 THEN strings[1]
    ELSE strings[1] \o sep \o Join(Tail(strings), sep)

\* sep.join(x) for a list of str
JoinList(x, sep) == Join([i \in 1..Len(x.v) |-> x.v[i].v], sep)

----------------------------------------------------------------------------
(* SearchHandler: building and sending a query *)

\* conn.response_version
ResponseVersion == [t |-> "float", v |-> "2.2"]

\* kw.get(k, default) on keyword arguments
KwGet(kw, k, default) == IF k \in DOMAIN kw THEN kw[k] ELSE default

\* `if highlight:` of SearchHandler.__call__
Highlight(p, fields, highlight) ==
    IF ~Truthy(highlight) THEN Returned(p)
    ELSE LET hl == DictSet(p, "hl", JStr("true")) IN
         IF highlight.t \notin {"bool", "int", "float"}
         THEN Returned(DictSet(hl, "hl_fl",
                  IF highlight.t # "str" THEN JStr(JoinList(highlight, ","))
                  ELSE highlight))
         ELSE IF ~Truthy(fields) THEN Raised("ValueError")
         ELSE IF fields.t = "str"
              THEN Returned(DictSet(hl, "hl_fl", JList(<<fields>>)))
         ELSE Returned(DictSet(hl, "hl_fl", JStr(JoinList(fields, ","))))

\* the field list as one string: joined if a list, '*' if empty
FieldList(fields) ==
    LET joined == IF Truthy(fields) /\ fields.t # "str"
                  THEN JStr(JoinList(fields, ",")) ELSE fields
    IN  IF ~Truthy(joined) THEN "*" ELSE joined.v

\* one element of sort with the default order added where none is given
Sorting(e, sort_order) ==
    IF ~(EndsWith(e, "asc") \/ EndsWith(e, "desc"))
    THEN e \o " " \o sort_order.v ELSE e

\* `if sort:` of SearchHandler.__call__
Sort(p, sort, sort_order) ==
    IF ~Truthy(sort) THEN Returned(p)
    ELSE IF ~Truthy(sort_order) \/ sort_order \notin {JStr("asc"), JStr("desc")}
         THEN Raised("ValueError")
    ELSE LET elements ==
                 IF sort.t = "str"
                 THEN LET pieces == SplitOn(sort.v, ",", "") IN
                      [i \in 1..Len(pieces) |-> Strip(pieces[i])]
                 ELSE [i \in 1..Len(sort.v) |-> sort.v[i].v]
             sorting == [i \in 1..Len(elements) |->
                            Sorting(elements[i], sort_order)]
         IN  Returned(DictSet(p, "sort", JStr(Join(sorting, ","))))

\* SearchHandler.__call__ up to `data = self.raw(**params)`: the params
\* it sends and stamps on the Response, or the exception it raises.
\* kw holds the keyword arguments the call was given, q apart.
SearchParams(wt, q, kw) ==
    LET fields == KwGet(kw, "fields", JNull)
        highlight == KwGet(kw, "highlight", JNull)
        score == KwGet(kw, "score", JBool(TRUE))
        sort == KwGet(kw, "sort", JNull)
        sort_order == KwGet(kw, "sort_order", JStr("asc"))
        others == [k \in (DOMAIN kw) \ {"fields", "highlight", "score", "sort",
                                        "sort_order"} |-> kw[k]]
        p1 == Highlight(others, fields, highlight)
    IN  IF p1.exc # "" THEN p1
        ELSE
        LET p2 == IF q # JNull THEN DictSet(p1.val, "q", q) ELSE p1.val
            fl == FieldList(fields)
            p3 == Sort(p2, sort, sort_order)
        IN  IF p3.exc # "" THEN p3
            ELSE
            LET fl2 == IF Truthy(score)
                          /\ ~(\E i \in 1..Len(Words(Replace(fl, ",", " "))) :
                                  Words(Replace(fl, ",", " "))[i] = "score")
                       THEN fl \o ",score" ELSE fl
            IN  Returned(DictSet(DictSet(DictSet(p3.val,
                    "fl", JStr(fl2)), "version", ResponseVersion), "wt", JStr(wt)))

\* SearchHandler.raw(**params): the (key, value) pairs handed to urlencode,
\* with the separator of the keys replaced and lists spread out
RawQuery(p) ==
    UNION { LET key == Replace(k, "_", ".") IN
            IF p[k].t = "list"
            THEN {<<key, p[k].v[i]>> : i \in 1..Len(p[k].v)}
            ELSE {<<key, p[k]>>} : k \in DOMAIN p }

----------------------------------------------------------------------------
(* XML responses: ResponseContentHandler and parse_xml_response *)

\* an element as the handler keeps it in a Node: its tag, its attributes in
\* document order, its child elements and its text
Element(name, attrs, children, chars) ==
    [name |-> name, attrs |-> attrs, children |-> children, chars |-> chars]

\* attrs.get(k, default) / attrs[k] on the attributes of an element
HasAttr(attrs, k) == \E i \in 1..Len(attrs) : attrs[i][1] = k
AttrGet(attrs, k, default) ==
    IF HasAttr(attrs, k)
    THEN (CHOOSE pr \in {attrs[i] : i \in 1..Len(attrs)} : pr[1] = k)[2]
    ELSE default

\* Results: a list that takes attributes
Results(items) == [t |-> "Results", v |-> [items |-> items, attrs |-> <<>>]]

\* MultiDict(pairs): every key with the values entered for it, in order
MultiDict(pairs) ==
    [t |-> "MultiDict",
     v |-> [k \in {pairs[i][1] : i \in 1..Len(pairs)} |->
                LET own == SelectSeq(pairs, LAMBDA pr : pr[1] = k)
                IN  [i \in 1..Len(own) |-> own[i][2]]]]

\* setattr(x, k, v) on what an element became
SetFinalAttr(x, k, v) ==
    CASE x.t = "Response" ->
            LET r == SetAttr(x.v, k, v) IN
            IF r.exc # "" THEN r ELSE Returned(ResponseObject(r.val))
      [] x.t = "Results" ->
            Returned([x EXCEPT !.v.attrs = DictSet(@, k, v)])
      [] x.t = "MultiDict" -> Returned(x)
      [] OTHER -> Raised("AttributeError")

\* `for attr, val in node.attrs.items(): if attr != 'name': setattr(...)`
RECURSIVE SetFinalAttrs(_, _)
SetFinalAttrs(x, attrs) ==
    IF attrs = <<>> THEN Returned(x)
    ELSE IF Head(attrs)[1] = "name" THEN SetFinalAttrs(x, Tail(attrs))
    ELSE With(SetFinalAttr(x, Head(attrs)[1], JStr(Head(attrs)[2])),
              LAMBDA r : IF r.exc # "" THEN r
                         ELSE SetFinalAttrs(r.val, Tail(attrs)))

\* int(value[from:to]), counting from 1 and with to included
DatePart(s, from, to) ==
    LET last == IF to < Len(s) THEN to ELSE Len(s) IN
    PyInt(JStr(IF from > last THEN "" ELSE SubSeq(s, from, last)))

\* the days of a month, as datetime counts them
DaysIn(year, month) ==
    IF month = 2
    THEN (IF year % 4 = 0 /\ (year % 100 # 0 \/ year % 400 = 0) THEN 29 ELSE 28)
    ELSE IF month \in {4, 6, 9, 11} THEN 30 ELSE 31

\* utc_from_string, for dates with whole seconds
utc_from_string(value) ==
    IF Len(value) <= 10 THEN
        IF EndsWith(value, "Z") THEN Raised("ValueError")
        ELSE Raised("IndexError")
    ELSE IF ~EndsWith(value, "Z") /\ SubSeq(value, 11, 11) = "T"
         THEN Raised("ValueError")
    ELSE LET from == <<1, 6, 9, 12, 15, 18>>
             to == <<4, 7, 10, 13, 16, Len(value) - 1>>
             least == <<1, 1, 1, 0, 0, 0>>
             most == <<9999, 12, 31, 23, 59, 59>>
         IN  With([i \in 1..6 |-> DatePart(value, from[i], to[i])],
                  LAMBDA parts :
                      IF \E i \in 1..6 : parts[i].exc # ""
                      THEN Raised("ValueError")
                      ELSE IF \/ \E i \in 1..6 :
                                    parts[i].val.v \notin least[i]..most[i]
                              \/ parts[3].val.v
                                    > DaysIn(parts[1].val.v, parts[2].val.v)
                           THEN Raised("ValueError")
                      ELSE Returned([t |-> "datetime",
                                     v |-> [i \in 1..6 |-> parts[i].val.v]]))

\* the loop of endElement for a response element: every child becomes an
\* attribute of the Response, after the attributes of a result child
RECURSIVE ResponseChildren(_, _, _)
ResponseChildren(self, children, finals) ==
    IF children = <<>> THEN Returned(self)
    ELSE LET child == Head(children)
             name == AttrGet(child.attrs, "name", child.name)
             attr == IF name = "responseHeader" THEN "header"
                     ELSE IF child.name = "result" THEN "results"
                     ELSE name
         IN  With(IF name # "responseHeader" /\ child.name = "result"
                  THEN SetAttrs(self,
                           [i \in 1..Len(child.attrs) |->
                               <<child.attrs[i][1], JStr(child.attrs[i][2])>>])
                  ELSE Returned(self),
                  LAMBDA r1 :
                      IF r1.exc # "" THEN r1
                      ELSE With(SetAttr(r1.val, attr, Head(finals)),
                                LAMBDA r2 :
                                    IF r2.exc # "" THEN r2
                                    ELSE ResponseChildren(r2.val, Tail(children),
                                                          Tail(finals))))

\* endElement, by the tag of the element: what it becomes out of its text
\* and the finals of its children, before its own attributes are set
EndElement(node, finals) ==
    LET value == node.chars
        count == Len(node.children)
        named == \A i \in 1..count : HasAttr(node.children[i].attrs, "name")
        pairs == [i \in 1..count |->
                    <<AttrGet(node.children[i].attrs, "name", ""), finals[i]>>]
    IN  CASE node.name \in {"int", "long"} -> PyInt(JStr(Strip(value)))
          [] node.name = "str" -> Returned(JStr(value))
          [] node.name = "null" -> Returned(JNull)
          [] node.name = "bool" ->
                Returned(JBool(Strip(value) # ""
                    /\ SubSeq(Strip(value), 1, 1) \in {"t", "T"}))
          [] node.name = "date" -> utc_from_string(Strip(value))
          [] node.name \in {"float", "double", "status", "QTime"} ->
                PyFloat(JStr(Strip(value)))
          [] node.name = "response" ->
                With(ResponseChildren(NewResponse, node.children, finals),
                     LAMBDA r : IF r.exc # "" THEN r
                                ELSE Returned(ResponseObject(r.val)))
          [] node.name = "doc" ->
                IF ~named THEN Raised("KeyError")
                ELSE Returned(JMap([k \in {pairs[i][1] : i \in 1..count} |->
                        LET last == CHOOSE i \in 1..count :
                                      /\ pairs[i][1] = k
                                      /\ \A j \in 1..count :
                                            pairs[j][1] = k => j <= i
                        IN  pairs[last][2]]))
          [] node.name = "lst" ->
                IF ~named THEN Raised("KeyError")
                ELSE Returned(MultiDict(pairs))
          [] node.name = "arr" -> Returned(JList(finals))
          [] node.name = "result" -> Returned(Results(finals))
          [] node.name = "responseHeader" ->
                Returned(JMap([k \in {node.children[i].name : i \in 1..count} |->
                    LET last == CHOOSE i \in 1..count :
                                  /\ node.children[i].name = k
                                  /\ \A j \in 1..count :
                                        node.children[j].name = k => j <= i
                    IN  finals[last]]))
          [] OTHER -> Raised("SolrException")

\* endElement for an element and, before it, for the elements inside it:
\* node.final, or the exception raised on the way
RECURSIVE Final(_)
Final(node) ==
    With([i \in 1..Len(node.children) |-> Final(node.children[i])],
         LAMBDA kids :
             LET failed == {i \in 1..Len(kids) : kids[i].exc # ""} IN
             IF failed # {}
             THEN Raised(kids[CHOOSE i \in failed : \A j \in failed : i <= j].exc)
             ELSE With(EndElement(node, [i \in 1..Len(kids) |-> kids[i].val]),
                       LAMBDA own : IF own.exc # "" THEN own
                                    ELSE SetFinalAttrs(own.val, node.attrs)))

\* parse_xml_response(data, params, query) on a document with the given
\* root element
parse_xml_response(root, p, q) ==
    With(Final(root),
         LAMBDA r :
             IF r.exc # "" THEN r
             ELSE IF r.val.t # "Response" THEN Raised("AttributeError")
             ELSE Returned(ResponseObject(_set_params(r.val.v, p, q))))

----------------------------------------------------------------------------
(* The server answering a query, and the batches of a Response *)

MaxMatches == 4
MaxPosts == 4

\* the rows Solr returns when the request names none
DefaultRows == 10

\* conn.path
ConnPath == "/solr"

\* a SearchHandler, known by the wt of its parse_response
Handler(wt) == [t |-> "SearchHandler", v |-> wt]

\* the value of a parameter of a request body, or the default
RequestParam(body, key, default) ==
    IF \E pr \in body : pr[1] = key
    THEN (CHOOSE pr \in body : pr[1] = key)[2] ELSE default

\* the positions of the matches a request is answered with, out of n
Matching(body, n) ==
    LET start == PyInt(RequestParam(body, "start", JInt(0))).val.v
        rows == PyInt(RequestParam(body, "rows", JInt(DefaultRows))).val.v
        upto == IF start + rows < n THEN start + rows ELSE n
    IN  [start |-> start,
         ids |-> [i \in 1..(IF upto > start THEN upto - start ELSE 0) |->
                    start + i - 1]]

\* the answer in JSON, decoded
JsonReply(body, n) ==
    LET m == Matching(body, n) IN
    JMap(Header @@ [response |->
        JMap([numFound |-> JInt(n), start |-> JInt(m.start),
              docs |-> JList([i \in 1..Len(m.ids) |->
                                JMap([id |-> JInt(m.ids[i])])])])])

\* the answer in XML: its root element
XmlReply(body, n) ==
    LET m == Matching(body, n) IN
    Element("response", <<>>,
        << Element("lst", << <<"name", "responseHeader">> >>,
                << Element("int", << <<"name", "status">> >>, <<>>, "0") >>, ""),
           Element("result",
                << <<"name", "response">>, <<"numFound", IntToStr(n)>>,
                   <<"start", IntToStr(m.start)>> >>,
                [i \in 1..Len(m.ids) |->
                    Element("doc", <<>>,
                        << Element("int", << <<"name", "id">> >>, <<>>,
                                   IntToStr(m.ids[i])) >>, "")],
                "") >>,
        "")

\* SearchHandler.__call__(q, **kw) against a server with n matches: the
\* request posted, and the Response returned or the exception raised
Search(handler, q, kw, n) ==
    With(SearchParams(handler.v, q, kw),
         LAMBDA sp :
             IF sp.exc # "" THEN [exc |-> sp.exc, val |-> JNull, sent |-> <<>>]
             ELSE With(RawQuery(sp.val),
                       LAMBDA body :
                           With(IF handler.v = "json"
                                THEN CallAlone(<<>>, JsonReply(body, n),
                                               JMap(sp.val), handler)
                                ELSE parse_xml_response(XmlReply(body, n),
                                                        JMap(sp.val), handler),
                                LAMBDA parsed :
                                    [exc |-> parsed.exc, val |-> parsed.val,
                                     sent |-> <<[selector |-> ConnPath \o "/select",
                                                 body |-> body]>>])))

\* `try: start = int(self.results.start) except AttributeError: start = 0`
ResultsStart(results) ==
    IF results.t = "Results" /\ "start" \in DOMAIN results.v.attrs
    THEN PyInt(results.v.attrs["start"])
    ELSE Returned(JInt(0))

\* len(self.results)
ResultsLen(results) ==
    CASE results.t = "Results" -> Returned(Len(results.v.items))
      [] results.t \in {"list", "str"} -> Returned(Len(results.v))
      [] results.t = "map" -> Returned(Cardinality(DOMAIN results.v))
      [] OTHER -> Raised("TypeError")

\* self.header.get(k, default)
HeaderGet(header, k, default) ==
    CASE header.t = "map" ->
            Returned(IF k \in DOMAIN header.v THEN header.v[k] ELSE default)
      [] header.t = "MultiDict" ->
            Returned(IF k \in DOMAIN header.v /\ header.v[k] # <<>>
                     THEN header.v[k][Len(header.v[k])] ELSE default)
      [] OTHER -> Raised("AttributeError")

\* the tail of next_batch and previous_batch: the query sent again with
\* the entries of more put over the stored params
Reissue(self, more, n) ==
    LET p == more @@ self.v["_params"].v IN
    IF "q" \notin DOMAIN p THEN [exc |-> "KeyError", val |-> JNull, sent |-> <<>>]
    ELSE Search(self.v["_query"], p["q"], DictDel(p, "q"), n)

\* Response.next_batch()
next_batch(self, n) ==
    LET start == ResultsStart(self.v["results"])
        len == ResultsLen(self.v["results"])
    IN  IF start.exc # "" THEN [exc |-> start.exc, val |-> JNull, sent |-> <<>>]
        ELSE IF len.exc # "" THEN [exc |-> len.exc, val |-> JNull, sent |-> <<>>]
        ELSE Reissue(self, [k \in {"start"} |-> JInt(start.val.v + len.val)], n)

\* Response.previous_batch()
previous_batch(self, n) ==
    LET start == ResultsStart(self.v["results"])
        len == ResultsLen(self.v["results"])
    IN  IF start.exc # "" THEN [exc |-> start.exc, val |-> JNull, sent |-> <<>>]
        ELSE IF start.val.v = 0 THEN [exc |-> "", val |-> JNull, sent |-> <<>>]
        ELSE IF len.exc # "" THEN [exc |-> len.exc, val |-> JNull, sent |-> <<>>]
        ELSE LET got == HeaderGet(self.v["header"], "rows", JInt(len.val))
                 rows == IF got.exc # "" THEN got ELSE PyInt(got.val)
             IN  IF rows.exc # ""
                 THEN [exc |-> rows.exc, val |-> JNull, sent |-> <<>>]
                 ELSE LET back == start.val.v - rows.val.v IN
                      Reissue(self,
                          [k \in {"start", "rows"} |->
                              IF k = "rows" THEN rows.val
                              ELSE JInt(IF back > 0 THEN back ELSE 0)], n)

\* the keyword arguments of a first query
Optional(k, values) == {Absent} \cup {[x \in {k} |-> v] : v \in values}

QueryKw ==
    { f @@ h @@ sc @@ so @@ o @@ r @@ st :
        f \in Optional("fields", {JStr("id"), JList(<<JStr("id"), JStr("score")>>)}),
        h \in Optional("highlight", {JBool(TRUE), JStr("name")}),
        sc \in Optional("score", {JBool(FALSE)}),
        so \in Optional("sort", {JStr("id, name desc")}),
        o \in Optional("sort_order", {JStr("up")}),
        r \in Optional("rows", {JInt(2)}),
        st \in Optional("start", {JInt(1)}) }

BatchInit ==
    /\ index \in 0..MaxMatches
    /\ query \in {Handler("standard"), Handler("json")}
    /\ posted = <<>>
    /\ response = JNull
    /\ pc = "connected"
    /\ exc = ""
    /\ declared = <<>>
    /\ _translators = <<>>
    /\ objs = <<>>
    /\ calls = <<>>
    /\ data = JNull
    /\ obj = JNull
    /\ params = JNull
    /\ ti = 0

\* what a call on the handler or on a Response leaves behind
Outcome(r) ==
    /\ posted' = posted \o r.sent
    /\ response' = r.val
    /\ exc' = r.exc
    /\ pc' = IF r.exc # "" THEN "raised" ELSE "holding"
    /\ UNCHANGED <<index, query, declared, _translators, objs, calls, obj,
                   params, ti>>

\* conn.select(q, **kw): the first batch
Query(q, kw) ==
    /\ pc = "connected"
    /\ Outcome(Search(query, q, kw, index))
    /\ UNCHANGED data

\* response = response.next_batch()
NextBatch ==
    /\ pc = "holding"
    /\ response # JNull
    /\ Len(posted) < MaxPosts
    /\ Outcome(next_batch(response, index))
    /\ UNCHANGED data

\* response = response.previous_batch()
PreviousBatch ==
    /\ pc = "holding"
    /\ response # JNull
    /\ Len(posted) < MaxPosts
    /\ Outcome(previous_batch(response, index))
    /\ UNCHANGED data

BatchNext ==
    \/ \E q \in {JStr("test"), JNull}, kw \in QueryKw : Query(q, kw)
    \/ NextBatch
    \/ PreviousBatch

BatchSpec == BatchInit /\ [][BatchNext]_vars

----------------------------------------------------------------------------
(* The update interface of a connection: delete, commit and optimize *)

\* s.startswith(prefix)
StartsWith(s, prefix) ==
    Len(s) >= Len(prefix) /\ SubSeq(s, 1, Len(prefix)) = prefix

\* xml.sax.saxutils.escape(s)
RECURSIVE escape(_)
escape(s) ==
    IF s = "" THEN ""
    ELSE LET c == SubSeq(s, 1, 1) IN
         (CASE c = "&" -> "&amp;"
            [] c = "<" -> "&lt;"
            [] c = ">" -> "&gt;"
            [] OTHER -> c) \o escape(SubSeq(s, 2, Len(s)))

\* str(x) of an id or a query
PyStr(x) ==
    CASE x.t = "str" -> x.v
      [] x.t = "int" -> IntToStr(x.v)
      [] x.t = "null" -> "None"

\* query[k] = v on the dict the wrapper builds: a new key goes last, a key
\* already there keeps its place
QuerySet(items, k, v) ==
    IF \E i \in 1..Len(items) : items[i][1] = k
    THEN [i \in 1..Len(items) |-> IF items[i][1] = k THEN <<k, v>> ELSE items[i]]
    ELSE Append(items, <<k, v>>)

\* the head of the wrapper of committing: the commit-control arguments
\* popped from kw and the query built from them, or the TypeError
CommitControl(kw) ==
    LET commit == KwGet(kw, "commit", JBool(FALSE))
        optimize == KwGet(kw, "optimize", JBool(FALSE))
        rest == [k \in (DOMAIN kw) \ {"commit", "optimize"} |-> kw[k]]
    IN  IF Truthy(commit) \/ Truthy(optimize)
        THEN LET verb == IF Truthy(optimize) THEN "optimize" ELSE "commit"
                 wait_searcher == KwGet(rest, "wait_searcher", JBool(TRUE))
                 wait_flush == KwGet(rest, "wait_flush", JBool(TRUE))
                 q1 == << <<verb, "true">> >>
                 q2 == IF ~Truthy(wait_searcher)
                       THEN QuerySet(q1, "waitSearcher", "false") ELSE q1
                 q3 == IF ~Truthy(wait_flush)
                       THEN QuerySet(QuerySet(q2, "waitFlush", "false"),
                                     "waitSearcher", "false")
                       ELSE q2
             IN  [exc |-> "", query |-> q3,
                  kw |-> [k \in (DOMAIN rest) \ {"wait_searcher", "wait_flush"}
                              |-> rest[k]]]
        ELSE IF "wait_flush" \in DOMAIN rest \/ "wait_searcher" \in DOMAIN rest
             THEN [exc |-> "TypeError", query |-> <<>>, kw |-> rest]
        ELSE [exc |-> "", query |-> <<>>, kw |-> rest]

\* qs_from_items(query), for values that need no quoting
RECURSIVE QueryItems(_, _)
QueryItems(items, sep) ==
    IF items = <<>> THEN ""
    ELSE sep \o Head(items)[1] \o "=" \o Head(items)[2]
             \o QueryItems(Tail(items), "&")

qs_from_items(items) == QueryItems(items, "?")

\* what the server answers to an update: the status of the old style, 0 or
\* not, and the answer of the new style
Replies ==
    {"<result status=\"0\"></result>", "<result status=\"1\">failed</result>",
     "<response></response>"}

\* Solr._update(request, query) with the given answer of the server: the
\* request posted, and the data returned or the exception raised
_update(request, items, reply) ==
    LET sent == <<[selector |-> ConnPath \o "/update" \o qs_from_items(items),
                   body |-> request]>>
    IN  IF StartsWith(reply, "<result status=\"")
            /\ ~StartsWith(reply, "<result status=\"0\"")
        THEN [exc |-> "SolrException", val |-> JNull, sent |-> sent]
        ELSE [exc |-> "", val |-> JStr(reply), sent |-> sent]

\* the elements of a delete request, one line each
RECURSIVE DeleteLines(_, _)
DeleteLines(tag, values) ==
    IF values = <<>> THEN ""
    ELSE "<" \o tag \o ">" \o escape(PyStr(Head(values))) \o "</" \o tag \o ">\n"
             \o DeleteLines(tag, Tail(values))

\* Solr._delete(id, ids, queries): the request it returns, None if there is
\* nothing to delete, together with the list of the caller, which is the
\* list the id is inserted into
_delete(id, ids, queries) ==
    LET all == IF ~Truthy(ids) THEN JList(<<>>) ELSE ids IN
    IF Truthy(id) /\ all.t # "list"
    THEN [exc |-> "AttributeError", val |-> JNull, ids |-> ids]
    ELSE LET listed == IF Truthy(id) THEN JList(<<id>> \o all.v) ELSE all
             lst == DeleteLines("id", listed.v)
                        \o DeleteLines("query",
                               IF Truthy(queries) THEN queries.v ELSE <<>>)
         IN  [exc |-> "",
              val |-> IF lst # "" THEN JStr("<delete>\n" \o lst \o "</delete>")
                      ELSE JNull,
              ids |-> IF Truthy(ids) THEN listed ELSE ids]

\* the wrapper of committing around a function that returned content: the
\* update posted if there is content, nothing otherwise
committing(kw, content, reply) ==
    With(CommitControl(kw),
         LAMBDA control :
             IF control.exc # ""
             THEN [exc |-> control.exc, val |-> JNull, sent |-> <<>>]
             ELSE IF control.kw # Absent \/ content.exc # ""
                  THEN [exc |-> IF control.kw # Absent THEN "TypeError"
                                ELSE content.exc,
                        val |-> JNull, sent |-> <<>>]
             ELSE IF Truthy(content.val)
                  THEN _update(content.val.v, control.query, reply)
             ELSE [exc |-> "", val |-> JNull, sent |-> <<>>])

\* Solr._commit(verb, wait_flush, wait_searcher)
_commit(verb, wait_flush, wait_searcher, reply) ==
    LET options ==
            IF ~Truthy(wait_searcher)
            THEN (IF ~Truthy(wait_flush)
                  THEN "waitFlush=\"false\" waitSearcher=\"false\""
                  ELSE "waitSearcher=\"false\"")
            ELSE ""
    IN  _update("<" \o verb \o " " \o options \o "/>", <<>>, reply)

\* the arguments of the calls
Ids == {JStr("1"), JInt(0), JStr("a&b")}
IdLists ==
    {JNull, JList(<<>>), JList(<<JStr("2"), JStr("3")>>),
     JTuple(<<JStr("2"), JStr("3")>>)}
QueryLists ==
    {JNull, JList(<<JStr("a:b")>>), JList(<<JStr("a:b"), JStr("c:<d")>>)}
CommitKw ==
    { c @@ o @@ f @@ w :
        c \in Optional("commit", {JBool(TRUE), JBool(FALSE)}),
        o \in Optional("optimize", {JBool(TRUE)}),
        f \in Optional("wait_flush", {JBool(TRUE), JBool(FALSE)}),
        w \in Optional("wait_searcher", {JBool(TRUE), JBool(FALSE)}) }

UpdateInit ==
    /\ pc = "connected"
    /\ posted = <<>>
    /\ response = JNull
    /\ exc = ""
    /\ obj = JNull
    /\ index = 0
    /\ query = JNull
    /\ declared = <<>>
    /\ _translators = <<>>
    /\ objs = <<>>
    /\ calls = <<>>
    /\ data = JNull
    /\ params = JNull
    /\ ti = 0

\* what a call of the update interface leaves behind: call is the method
\* with its arguments, ids the list the caller passed as it is afterwards
Updated(call, r, ids) ==
    /\ calls' = <<call>>
    /\ posted' = posted \o r.sent
    /\ response' = r.val
    /\ exc' = r.exc
    /\ pc' = IF r.exc # "" THEN "raised" ELSE "returned"
    /\ obj' = ids
    /\ UNCHANGED <<index, query, declared, _translators, objs, data, params,
                   ti>>

\* conn.delete(id=id, ids=ids, queries=queries, **kw)
Delete(id, ids, queries, kw, reply) ==
    /\ pc = "connected"
    /\ \E content \in {_delete(id, ids, queries)} :
          Updated([method |-> "delete", id |-> id, ids |-> ids,
                   queries |-> queries, kw |-> kw],
                  committing(kw, content, reply), content.ids)

\* conn.delete_many(ids, **kw)
DeleteMany(ids, kw, reply) ==
    /\ pc = "connected"
    /\ \E content \in {_delete(JNull, ids, JNull)} :
          Updated([method |-> "delete_many", ids |-> ids, kw |-> kw],
                  committing(kw, content, reply), content.ids)

\* conn.delete_query(query, **kw)
DeleteQuery(q, kw, reply) ==
    /\ pc = "connected"
    /\ \E content \in {_delete(JNull, JNull, JList(<<q>>))} :
          Updated([method |-> "delete_query", query |-> q, kw |-> kw],
                  committing(kw, content, reply), JNull)

\* conn.commit(wait_flush, wait_searcher)
Commit(wait_flush, wait_searcher, reply) ==
    /\ pc = "connected"
    /\ Updated([method |-> "commit", wait_flush |-> wait_flush,
                wait_searcher |-> wait_searcher],
               _commit("commit", wait_flush, wait_searcher, reply), JNull)

\* conn.optimize(wait_flush, wait_searcher)
Optimize(wait_flush, wait_searcher, reply) ==
    /\ pc = "connected"
    /\ Updated([method |-> "optimize", wait_flush |-> wait_flush,
                wait_searcher |-> wait_searcher],
               _commit("optimize", wait_flush, wait_searcher, reply), JNull)

UpdateNext ==
    \/ \E id \in Ids \cup {JNull}, ids \in IdLists, queries \in QueryLists,
          kw \in CommitKw, reply \in Replies :
            Delete(id, ids, queries, kw, reply)
    \/ \E ids \in IdLists, kw \in CommitKw, reply \in Replies :
            DeleteMany(ids, kw, reply)
    \/ \E q \in {JStr("a:b"), JStr("")}, kw \in CommitKw, reply \in Replies :
            DeleteQuery(q, kw, reply)
    \/ \E wait_flush \in BOOLEAN, wait_searcher \in BOOLEAN, reply \in Replies :
            Commit(JBool(wait_flush), JBool(wait_searcher), reply)
    \/ \E wait_flush \in BOOLEAN, wait_searcher \in BOOLEAN, reply \in Replies :
            Optimize(JBool(wait_flush), JBool(wait_searcher), reply)

UpdateSpec == UpdateInit /\ [][UpdateNext]_vars

----------------------------------------------------------------------------
(* MultiDict: a dict whose values are the lists of the values entered *)

MaxValues == 3

\* an argument left out of a call
Missing == [t |-> "missing", v |-> 0]

\* the outcome of a method: what it returns or raises, and self afterwards
Outcome3(e, x, self) == [exc |-> e, val |-> x, self |-> self]

\* The dict underneath, as the entries <<key, value>> in insertion order.
\* key in d, and the place of the key
Has(entries, k) == \E i \in 1..Len(entries) : entries[i][1] = k
Place(entries, k) == CHOOSE i \in 1..Len(entries) : entries[i][1] = k
Entry(entries, k) == entries[Place(entries, k)][2]

\* dict.__setitem__(d, k, x): a key already there keeps its place
Store(entries, k, x) ==
    IF Has(entries, k)
    THEN [i \in 1..Len(entries) |->
            IF entries[i][1] = k THEN <<k, x>> ELSE entries[i]]
    ELSE Append(entries, <<k, x>>)

\* del d[k]
Remove(entries, k) == SelectSeq(entries, LAMBDA e : e[1] # k)

\* MultiDict.additem(key, value)
MultiDict_additem(self, k, v) ==
    Outcome3("", JNull,
        Store(self, k, (IF Has(self, k) THEN Entry(self, k) ELSE <<>>) \o <<v>>))

\* MultiDict.__setitem__(key, value)
MultiDict_setitem(self, k, v) == Outcome3("", JNull, Store(self, k, <<v>>))

\* MultiDict.setdefault(key, value)
MultiDict_setdefault(self, k, v) ==
    IF v = Missing THEN Outcome3("TypeError", JNull, self)
    ELSE IF Has(self, k)
         THEN (IF Entry(self, k) = <<>> THEN Outcome3("IndexError", JNull, self)
               ELSE Outcome3("", Entry(self, k)[Len(Entry(self, k))], self))
    ELSE Outcome3("", v, Store(self, k, <<v>>))

\* `for k, v in obj: self.additem(k, v)`
RECURSIVE AddItems(_, _)
AddItems(self, pairs) ==
    IF pairs = <<>> THEN self
    ELSE AddItems(MultiDict_additem(self, Head(pairs)[1], Head(pairs)[2]).self,
                  Tail(pairs))

\* MultiDict.update(*args, **kwargs).  A positional argument is a dict, a
\* list of pairs or a MultiDict, with the pairs it holds; a MultiDict has an
\* iteritems whose generator fails on the iteritems of dict when the loop
\* starts; anything else is not iterable.
MultiDict_update(self, args, kwargs) ==
    CASE args = <<>> -> Outcome3("", JNull, AddItems(self, kwargs))
      [] Len(args) > 1 -> Outcome3("TypeError", JNull, self)
      [] args[1].t = "MultiDict" -> Outcome3("AttributeError", JNull, self)
      [] args[1].t \in {"map", "list"} ->
            Outcome3("", JNull, AddItems(AddItems(self, args[1].v), kwargs))
      [] OTHER -> Outcome3("TypeError", JNull, self)

\* __getitem__ returning the first value entered for the key
MultiDict_getitemFirst(self, k) ==
    IF ~Has(self, k) \/ Entry(self, k) = <<>>
    THEN Outcome3("KeyError", JNull, self)
    ELSE Outcome3("", Entry(self, k)[1], self)

\* MultiDict.__getitem__(key)
MultiDict_getitem(self, k) ==
    IF ~Has(self, k) \/ Entry(self, k) = <<>>
    THEN Outcome3("KeyError", JNull, self)
    ELSE Outcome3("", Entry(self, k)[Len(Entry(self, k))], self)

\* MultiDict.get(key, default)
MultiDict_get(self, k, default) ==
    With(MultiDict_getitem(self, k),
         LAMBDA r : IF r.exc = "KeyError"
                    THEN Outcome3("", IF default = Missing THEN JNull ELSE default,
                                  self)
                    ELSE r)

\* MultiDict.getone(key, default)
MultiDict_getone(self, k, default) ==
    LET list_ == IF Has(self, k) THEN Entry(self, k)
                 ELSE <<IF default = Missing THEN JNull ELSE default>>
    IN  IF Len(list_) > 1 THEN Outcome3("MultipleValueError", JNull, self)
        ELSE IF list_ = <<>> THEN Outcome3("IndexError", JNull, self)
        ELSE Outcome3("", list_[Len(list_)], self)

\* MultiDict.getlist(key, default)
MultiDict_getlist(self, k, default) ==
    Outcome3("", IF Has(self, k) THEN JList(Entry(self, k))
                 ELSE IF default = Missing THEN JList(<<>>) ELSE default, self)

\* pop returning the last of several values
MultiDict_popLast(self, k, default) ==
    IF ~Has(self, k)
    THEN Outcome3("", IF default = Missing THEN JNull ELSE default, self)
    ELSE Outcome3("", Entry(self, k)[Len(Entry(self, k))], Remove(self, k))

\* MultiDict.pop(key, default): the key is out before its values are counted
MultiDict_pop(self, k, default) ==
    IF ~Has(self, k)
    THEN Outcome3("", IF default = Missing THEN JNull ELSE default, self)
    ELSE LET list_ == Entry(self, k) IN
         IF Len(list_) > 1
         THEN Outcome3("MultipleValueError", JNull, Remove(self, k))
         ELSE IF list_ = <<>> THEN Outcome3("IndexError", JNull, Remove(self, k))
         ELSE Outcome3("", list_[1], Remove(self, k))

\* MultiDict.poplist(key, default)
MultiDict_poplist(self, k, default) ==
    IF Has(self, k) THEN Outcome3("", JList(Entry(self, k)), Remove(self, k))
    ELSE Outcome3("", IF default = Missing THEN JList(<<>>) ELSE default, self)

\* MultiDict.popitem(): the last value of the last key; the values left
\* over go back in under the key, which is then the last key again
MultiDict_popitem(self) ==
    IF self = <<>> THEN Outcome3("KeyError", JNull, self)
    ELSE LET k == self[Len(self)][1]
             list_ == self[Len(self)][2]
             rest == SubSeq(self, 1, Len(self) - 1)
         IN  IF list_ = <<>> THEN Outcome3("IndexError", JNull, rest)
             ELSE Outcome3("", JTuple(<<JStr(k), list_[Len(list_)]>>),
                      IF Len(list_) > 1
                      THEN Store(rest, k, SubSeq(list_, 1, Len(list_) - 1))
                      ELSE rest)

\* MultiDict.items() and MultiDict.values(): list() runs the generator of
\* iteritems / itervalues, which asks dict for an iteritems / itervalues it
\* does not have
MultiDict_items(self) == Outcome3("AttributeError", JNull, self)
MultiDict_values(self) == Outcome3("AttributeError", JNull, self)

----------------------------------------------------------------------------
(* The standard dict, given the same calls *)

dict_setitem(self, k, v) == Outcome3("", JNull, Store(self, k, v))

dict_getitem(self, k) ==
    IF Has(self, k) THEN Outcome3("", Entry(self, k), self)
    ELSE Outcome3("KeyError", JNull, self)

dict_get(self, k, default) ==
    IF Has(self, k) THEN Outcome3("", Entry(self, k), self)
    ELSE Outcome3("", IF default = Missing THEN JNull ELSE default, self)

dict_setdefault(self, k, v) ==
    IF Has(self, k) THEN Outcome3("", Entry(self, k), self)
    ELSE With(IF v = Missing THEN JNull ELSE v,
              LAMBDA x : Outcome3("", x, Store(self, k, x)))

RECURSIVE StoreAll(_, _)
StoreAll(self, pairs) ==
    IF pairs = <<>> THEN self
    ELSE StoreAll(Store(self, Head(pairs)[1], Head(pairs)[2]), Tail(pairs))

\* a MultiDict is a dict to dict.update, which copies the lists it holds
dict_update(self, args, kwargs) ==
    CASE args = <<>> -> Outcome3("", JNull, StoreAll(self, kwargs))
      [] Len(args) > 1 -> Outcome3("TypeError", JNull, self)
      [] args[1].t \in {"map", "list"} ->
            Outcome3("", JNull, StoreAll(StoreAll(self, args[1].v), kwargs))
      [] args[1].t = "MultiDict" ->
            Outcome3("", JNull,
                StoreAll(StoreAll(self,
                    [i \in 1..Len(args[1].v) |->
                        <<args[1].v[i][1], JList(<<args[1].v[i][2]>>)>>]),
                    kwargs))
      [] OTHER -> Outcome3("TypeError", JNull, self)

dict_pop(self, k, default) ==
    IF Has(self, k) THEN Outcome3("", Entry(self, k), Remove(self, k))
    ELSE IF default = Missing THEN Outcome3("KeyError", JNull, self)
    ELSE Outcome3("", default, self)

dict_popitem(self) ==
    IF self = <<>> THEN Outcome3("KeyError", JNull, self)
    ELSE Outcome3("", JTuple(<<JStr(self[Len(self)][1]), self[Len(self)][2]>>),
                  SubSeq(self, 1, Len(self) - 1))

dict_items(self) ==
    Outcome3("", JList([i \in 1..Len(self) |->
                          JTuple(<<JStr(self[i][1]), self[i][2]>>)]), self)

dict_values(self) ==
    Outcome3("", JList([i \in 1..Len(self) |-> self[i][2]]), self)

----------------------------------------------------------------------------
(* A MultiDict and a standard dict, given the same sequence of calls *)

MultiKeys == {"a", "b"}
MultiValues == {JInt(1), JInt(2)}
Defaults == {Missing, JInt(0)}

\* the pairs a call can bring
PairLists ==
    {<<>>, <<<<"a", JInt(1)>>>>, <<<<"a", JInt(2)>>>>,
     <<<<"a", JInt(1)>>, <<"a", JInt(2)>>>>}

\* the positional arguments of update and of the constructor: none, one
\* that is not iterable, two, a dict, a list of pairs, an empty MultiDict
UpdateArgs ==
    {<<>>, <<JInt(0)>>, <<JList(<<>>), JList(<<>>)>>,
     <<[t |-> "MultiDict", v |-> <<>>]>>}
        \cup {<<[t |-> tag, v |-> pairs]>> :
                tag \in {"map", "list"}, pairs \in PairLists}

\* the positional arguments the constructor is given here
ConstructArgs ==
    {<<>>, <<[t |-> "MultiDict", v |-> <<>>]>>,
     <<JList(<<<<"a", JInt(1)>>, <<"a", JInt(2)>>>>)>>}

\* only a list of pairs can name a key twice
WellFormedArgs(args) ==
    \A i \in 1..Len(args) :
        args[i].t \in {"map", "MultiDict"} =>
            \A m, n \in 1..Len(args[i].v) :
                args[i].v[m][1] = args[i].v[n][1] => m = n

\* **kwargs
Kwargs == {<<>>, <<<<"b", JInt(1)>>>>}

MultiCall(method, k, v, args, kwargs) ==
    [method |-> method, key |-> k, value |-> v, args |-> args,
     kwargs |-> kwargs]

\* a call the standard dict does not have
NotShared(self) == Outcome3("", JNull, self)

\* the pairs update goes through before it stops
Entered(r, args, kwargs) ==
    IF r.exc # "" THEN <<>>
    ELSE (IF args = <<>> THEN <<>> ELSE args[1].v) \o kwargs

MultiInit ==
    /\ pc = "multi"
    /\ obj = <<>>
    /\ data = <<>>
    /\ response = JNull
    /\ exc = ""
    /\ params = [exc |-> "", val |-> JNull]
    /\ calls = <<>>
    /\ index = <<>>
    /\ ti = 0
    /\ query = JNull
    /\ declared = <<>>
    /\ _translators = <<>>
    /\ objs = <<>>
    /\ posted = <<>>

\* the number of values a MultiDict holds
RECURSIVE Held(_)
Held(self) == IF self = <<>> THEN 0 ELSE Len(Head(self)[2]) + Held(Tail(self))

\* One call on the MultiDict (m) and on the dict (d), while the MultiDict
\* holds no more than MaxValues values.  index keeps the value
\* last entered for each key, until a call takes values out (ti is 1 from
\* then on, and index is no longer kept).
Did(call, m, d, entered, removing) ==
    /\ Held(m.self) <= MaxValues
    /\ calls' = <<call>>
    /\ obj' = m.self
    /\ response' = m.val
    /\ exc' = m.exc
    /\ data' = d.self
    /\ params' = [exc |-> d.exc, val |-> d.val]
    /\ index' = IF removing = 1 THEN <<>> ELSE entered
    /\ ti' = removing
    /\ UNCHANGED <<pc, query, declared, _translators, objs, posted>>

\* MultiDict(*args, **kwargs) and dict(*args, **kwargs)
MultiConstruct ==
    /\ pc = "multi"
    /\ \E args \in ConstructArgs, kwargs \in Kwargs :
        /\ WellFormedArgs(args)
        /\ With(MultiDict_update(<<>>, args, kwargs),
                LAMBDA r : Did(MultiCall("__init__", "", Missing, args, kwargs),
                               r, dict_update(<<>>, args, kwargs),
                               StoreAll(<<>>, Entered(r, args, kwargs)), 0))

MultiAddItem ==
    /\ pc = "multi"
    /\ \E k \in MultiKeys, v \in MultiValues :
        Did(MultiCall("additem", k, v, <<>>, <<>>), MultiDict_additem(obj, k, v),
            NotShared(data), Store(index, k, v), ti)

MultiSetItem ==
    /\ pc = "multi"
    /\ \E k \in MultiKeys, v \in MultiValues :
        Did(MultiCall("__setitem__", k, v, <<>>, <<>>), MultiDict_setitem(obj, k, v),
            dict_setitem(data, k, v), Store(index, k, v), ti)

MultiSetDefault ==
    /\ pc = "multi"
    /\ \E k \in MultiKeys, v \in MultiValues :
        Did(MultiCall("setdefault", k, v, <<>>, <<>>),
            MultiDict_setdefault(obj, k, v), dict_setdefault(data, k, v),
            IF Has(obj, k) \/ v = Missing THEN index ELSE Store(index, k, v),
            ti)

MultiUpdate ==
    /\ pc = "multi"
    /\ \E args \in UpdateArgs, kwargs \in Kwargs :
        /\ WellFormedArgs(args)
        /\ With(MultiDict_update(obj, args, kwargs),
                LAMBDA r : Did(MultiCall("update", "", Missing, args, kwargs),
                               r, dict_update(data, args, kwargs),
                               StoreAll(index, Entered(r, args, kwargs)), ti))

MultiGetItem ==
    /\ pc = "multi"
    /\ \E k \in MultiKeys :
        Did(MultiCall("__getitem__", k, Missing, <<>>, <<>>),
            MultiDict_getitem(obj, k), dict_getitem(data, k), index, ti)

MultiGet ==
    /\ pc = "multi"
    /\ \E k \in MultiKeys, default \in Defaults :
        Did(MultiCall("get", k, default, <<>>, <<>>),
            MultiDict_get(obj, k, default), dict_get(data, k, default),
            index, ti)

MultiGetOne ==
    /\ pc = "multi"
    /\ \E k \in MultiKeys, default \in Defaults :
        Did(MultiCall("getone", k, default, <<>>, <<>>),
            MultiDict_getone(obj, k, default), NotShared(data), index, ti)

MultiGetList ==
    /\ pc = "multi"
    /\ \E k \in MultiKeys, default \in Defaults :
        Did(MultiCall("getlist", k, default, <<>>, <<>>),
            MultiDict_getlist(obj, k, default), NotShared(data), index, ti)

MultiPop ==
    /\ pc = "multi"
    /\ \E k \in MultiKeys, default \in Defaults :
        Did(MultiCall("pop", k, default, <<>>, <<>>),
            MultiDict_pop(obj, k, default), dict_pop(data, k, default),
            <<>>, 1)

MultiPopList ==
    /\ pc = "multi"
    /\ \E k \in MultiKeys, default \in Defaults :
        Did(MultiCall("poplist", k, default, <<>>, <<>>),
            MultiDict_poplist(obj, k, default), NotShared(data), <<>>, 1)

MultiPopItem ==
    /\ pc = "multi"
    /\ Did(MultiCall("popitem", "", Missing, <<>>, <<>>),
           MultiDict_popitem(obj), dict_popitem(data), <<>>, 1)

MultiItems ==
    /\ pc = "multi"
    /\ Did(MultiCall("items", "", Missing, <<>>, <<>>),
           MultiDict_items(obj), dict_items(data), index, ti)

MultiValuesCall ==
    /\ pc = "multi"
    /\ Did(MultiCall("values", "", Missing, <<>>, <<>>),
           MultiDict_values(obj), dict_values(data), index, ti)

MultiNext ==
    \/ MultiConstruct
    \/ MultiAddItem
    \/ MultiSetItem
    \/ MultiSetDefault
    \/ MultiUpdate
    \/ MultiGetItem
    \/ MultiGet
    \/ MultiGetOne
    \/ MultiGetList
    \/ MultiPop
    \/ MultiPopList
    \/ MultiPopItem
    \/ MultiItems
    \/ MultiValuesCall

MultiSpec == MultiInit /\ [][MultiNext]_vars

----------------------------------------------------------------------------
(* parse_xml_response called on the documents a server answers with *)

\* <tag name="...">text</tag>
Named(tag, name, chars) == Element(tag, << <<"name", name>> >>, <<>>, chars)

\* the fields of a document, one of every tag a field can have
TextField == Named("str", "text", "hello world")
IdField == Named("str", "id", "a")
HitsField == Named("int", "hits", "5")
SizeField == Named("long", "size", " 12 ")
FlagField == Named("bool", "flag", "true")
TimestampField == Named("date", "timestamp", "2009-01-07T00:00:00Z")
TagsField ==
    Element("arr", << <<"name", "tags">> >>,
            << Element("str", <<>>, <<>>, "x"), Element("int", <<>>, <<>>, "7") >>,
            "")

\* <doc> elements
XmlDoc(fields) == Element("doc", <<>>, fields, "")
XmlDocs ==
    { XmlDoc(<<TextField, TimestampField, IdField, HitsField>>),
      XmlDoc(<<IdField, FlagField, TagsField, SizeField>>),
      XmlDoc(<<>>) }

\* <lst name="responseHeader">
XmlHeaders ==
    { Element("lst", << <<"name", "responseHeader">> >>,
              << Named("int", "status", "0"), Named("int", "QTime", "3") >>, ""),
      Element("lst", << <<"name", "responseHeader">> >>,
              << Named("int", "status", "0"),
                 Element("lst", << <<"name", "params">> >>,
                         << Named("str", "q", "id:a") >>, "") >>, "") }

\* <result name="..." numFound="..." start="...">
ResultElement(name, numFound, start, docs) ==
    Element("result",
            << <<"name", name>>, <<"numFound", numFound>>, <<"start", start>> >>,
            docs, "")

\* what a response can hold next to its header and its result: nothing, the
\* output of another component under its name, or a second result
Additional ==
    { <<>>,
      << Element("lst", << <<"name", "termVectors">> >>, <<>>, "") >>,
      << Element("lst", << <<"name", "highlighting">> >>,
                 << Named("str", "a", "<em>hello</em>") >>, "") >>,
      << Element("lst", << <<"name", "results">> >>, <<>>, "") >>,
      << ResultElement("match", "1", "0", << XmlDoc(<<IdField>>) >>) >> }

\* the documents: <response> with a header, a result and what comes with it
XmlDocuments ==
    { Element("response", <<>>,
              <<header, ResultElement("response", numFound, start, docs)>>
                  \o more, "") :
        header \in XmlHeaders, numFound \in {"0", "2", "12"},
        start \in {"0", "10"}, docs \in SeqsUpTo(XmlDocs, MaxDocs),
        more \in Additional }

\* the params and the query of the call
XmlRequests ==
    { <<JMap([q |-> JStr("id:a")]), Handler("standard")>>,
      <<JMap([q |-> JStr("*:*"), rows |-> JStr("10")]), Handler("standard")>>,
      <<JMap(<<>>), JNull>> }

XmlInit ==
    /\ pc = "start"
    /\ data \in XmlDocuments
    /\ \E req \in XmlRequests : params = req[1] /\ query = req[2]
    /\ response = JNull
    /\ exc = ""
    /\ obj = JNull
    /\ index = 0
    /\ ti = 0
    /\ declared = <<>>
    /\ _translators = <<>>
    /\ objs = <<>>
    /\ calls = <<>>
    /\ posted = <<>>

\* response = parse_xml_response(data, params, query)
ParseXml ==
    /\ pc = "start"
    /\ With(parse_xml_response(data, params, query),
            LAMBDA r : /\ response' = r.val
                       /\ exc' = r.exc
                       /\ pc' = IF r.exc # "" THEN "raised" ELSE "returned")
    /\ UNCHANGED <<data, params, query, obj, index, ti, declared, _translators,
                   objs, calls, posted>>

XmlNext == ParseXml

XmlSpec == XmlInit /\ [][XmlNext]_vars

----------------------------------------------------------------------------
(* Properties *)

\* the documents of a tree that has a list under response.docs
HasDocs(tree) ==
    /\ tree.t = "map"
    /\ "response" \in DOMAIN tree.v
    /\ tree.v["response"].t = "map"
    /\ "docs" \in DOMAIN tree.v["response"].v
    /\ tree.v["response"].v["docs"].t = "list"
DocsOf(tree) == tree.v["response"].v["docs"].v
WithDocs(tree, docs) == [tree EXCEPT !.v["response"].v["docs"].v = docs]
HasText(doc) == doc.t = "map" /\ "text" \in DOMAIN doc.v

TextCPath == compile_path(TextPath)

\* whether a translator path (response, docs, X, Y) reaches the text field
\* of the document at Python position i of n documents
ReachesText(cpath, i, n) ==
    /\ Len(cpath) = 4
    /\ cpath[4] = Attribute(JStr("response"))
    /\ cpath[3] = Attribute(JStr("docs"))
    /\ CASE cpath[2].kind = "Wildcard" -> TRUE
         [] cpath[2].kind = "Attribute" ->
                /\ cpath[2].val.t = "int"
                /\ cpath[2].val.v \in {i, i - n}
         [] cpath[2].kind = "Matcher" ->
                CallPredicate(cpath[2].val.v, JInt(i)) = Returned(TRUE)
    /\ CASE cpath[1].kind = "Wildcard" -> TRUE
         [] cpath[1].kind = "Attribute" -> cpath[1].val = JStr("text")
         [] cpath[1].kind = "Matcher" ->
                CallPredicate(cpath[1].val.v, JStr("text")) = Returned(TRUE)

\* x after the transforms of those of the first k translators that reach
\* the text field of document i, applied in declaration order
RECURSIVE Composed(_, _, _, _)
Composed(k, i, n, x) ==
    IF k = 0 THEN Returned(x)
    ELSE LET before == Composed(k - 1, i, n, x) IN
         IF before.exc # "" THEN before
         ELSE IF ReachesText(_translators[k].cpath, i, n)
              THEN CallTransform(_translators[k].cb.v, before.val)
              ELSE before

\* C1: translators are applied in declaration order, each over the whole
\* tree, and each sees what the earlier ones wrote: once the first ti - 1
\* translators have run, the text field of every document holds its
\* decoded value passed through the transforms of those translators that
\* match it, composed in declaration order (B(A(x)) for [A, B]).
C1_DeclarationOrder ==
    (pc = "translate" /\ HasDocs(data)) =>
        /\ HasDocs(obj)
        /\ Len(DocsOf(obj)) = Len(DocsOf(data))
        /\ \A i \in 1..Len(DocsOf(data)) :
              HasText(DocsOf(data)[i]) =>
                Composed(ti - 1, i - 1, Len(DocsOf(data)),
                         DocsOf(data)[i].v["text"])
                  = Returned(DocsOf(obj)[i].v["text"])

\* C1 witness: [len, dec] on the same leaf "hello" left len("hello") - 1
C1_Witness ==
    /\ pc = "translate"
    /\ ti = 3
    /\ _translators = CompileTranslators(
          <<Translator(TextPath, "len"), Translator(TextPath, "dec")>>)
    /\ HasDocs(data)
    /\ DocsOf(data) = <<Doc1, Doc2>>
    /\ DocsOf(obj)[1].v["text"] = JInt(4)
    /\ DocsOf(obj)[2].v["text"] = JInt(2)

\* a document with its text field, if any, replaced by f(text)
TextRewritten(doc, f) ==
    IF HasText(doc)
    THEN [doc EXCEPT !.v["text"] = CallTransform(f, @).val]
    ELSE doc

\* the first document (1-based) whose text field makes f raise, 0 if none
FirstRaising(docs, f) ==
    LET S == {i \in 1..Len(docs) :
                HasText(docs[i]) /\ CallTransform(f, docs[i].v["text"]).exc # ""}
    IN  IF S = {} THEN 0 ELSE CHOOSE i \in S : \A j \in S : i <= j

\* a step of translate() in which the pass raises
C2_Raise ==
    (pc = "translate" /\ ti <= Len(_translators) /\ pc' = "raised") =>
        /\ response' = JNull
        /\ ti' = ti
        /\ (_translators[ti].cpath = TextCPath /\ HasDocs(obj)) =>
              LET f == _translators[ti].cb.v
                  docs == DocsOf(obj)
                  k == FirstRaising(docs, f)
              IN  /\ k > 0
                  /\ exc' = CallTransform(f, docs[k].v["text"]).exc
                  /\ obj' = WithDocs(obj, [i \in 1..Len(docs) |->
                                IF i < k THEN TextRewritten(docs[i], f)
                                ELSE docs[i]])

\* nothing of the parse call runs once an exception has left it
C2_Halt == pc = "raised" => UNCHANGED vars

\* [B, A] with B = subtract 1, A = length on a string-valued text field
C2_Reversed ==
    ( /\ pc \in {"raised", "returned"}
      /\ _translators = CompileTranslators(
            <<Translator(TextPath, "dec"), Translator(TextPath, "len")>>)
      /\ HasDocs(data)
      /\ \E i \in 1..Len(DocsOf(data)) :
            HasText(DocsOf(data)[i]) /\ DocsOf(data)[i].v["text"].t = "str" )
    => (pc = "raised" /\ exc = "TypeError" /\ ti = 1)

\* C2: a transform that raises is not caught: the exception leaves the
\* parse call, the rewrites of the pass made so far stay and no further
\* one is made, no later translator runs and no Response is returned;
\* [subtract 1, length] on string text fields raises TypeError.
C2_TransformFailure ==
    /\ []((pc = "raised" => response = JNull) /\ C2_Reversed)
    /\ [][C2_Raise /\ C2_Halt]_vars

\* C2 witness: subtract 1 rewrote the first document, raised on the second
C2_Witness ==
    /\ pc = "raised"
    /\ exc = "TypeError"
    /\ ti = 1
    /\ response = JNull
    /\ _translators = CompileTranslators(
          <<Translator(TextPath, "dec"), Translator(TextPath, "len")>>)
    /\ HasDocs(data)
    /\ DocsOf(data) = <<Doc4, Doc1>>
    /\ DocsOf(obj) = <<TextRewritten(Doc4, "dec"), Doc1>>
    /\ DocsOf(obj)[1].v["text"] = JInt(2)

\* a pass of a translator (response, docs, wildcard, text) that completes
C3_Step ==
    ( /\ pc = "translate"
      /\ ti <= Len(_translators)
      /\ _translators[ti].cpath = TextCPath
      /\ pc' = "translate" )
    => obj' = IF HasDocs(obj)
              THEN WithDocs(obj, [i \in 1..Len(DocsOf(obj)) |->
                        TextRewritten(DocsOf(obj)[i], _translators[ti].cb.v)])
              ELSE obj

\* C3: a translator with path (response, docs, wildcard, text) and
\* transform f replaces the text field of every document by f(old text)
\* and leaves every other field and everything outside response.docs as
\* it was.
C3_WildcardText == [][C3_Step]_vars

\* C3 witness: one length translator has rewritten both documents
C3_Witness ==
    /\ pc = "translate"
    /\ ti = 2
    /\ _translators = CompileTranslators(<<Translator(TextPath, "len")>>)
    /\ HasDocs(data)
    /\ DocsOf(data) = <<Doc1, Doc2>>
    /\ DocsOf(obj) = <<[Doc1 EXCEPT !.v["text"] = JInt(5)],
                       [Doc2 EXCEPT !.v["text"] = JInt(3)]>>
    /\ obj = WithDocs(data, DocsOf(obj))

\* translator paths (response, docs, N, text) with N a literal integer
IsIndexCPath(cpath) ==
    /\ Len(cpath) = 4
    /\ cpath[4] = Attribute(JStr("response"))
    /\ cpath[3] = Attribute(JStr("docs"))
    /\ cpath[2].kind = "Attribute"
    /\ cpath[2].val.t = "int"
    /\ cpath[1] = Attribute(JStr("text"))

\* the document (1-based, 0 for none) at position N of n documents,
\* positions being 0 .. n-1
PositionFromStart(N, n) == IF 0 <= N /\ N < n THEN N + 1 ELSE 0

\* the same with N < 0 counting from the end, as Python's obj[N] does
PythonPosition(N, n) ==
    IF 0 <= N /\ N < n THEN N + 1
    ELSE IF 0 - n <= N /\ N < 0 THEN n + N + 1
    ELSE 0

\* what a pass of (response, docs, N, text) does when p is the document N
\* names: that document's text is rewritten and nothing else, nothing is
\* rewritten and nothing raised when there is none to rewrite, and only
\* the transform can raise
IndexStep(p) ==
    LET f == _translators[ti].cb.v
        docs == DocsOf(obj)
    IN  IF p = 0 \/ ~HasText(docs[p])
        THEN obj' = obj /\ pc' = "translate"
        ELSE IF CallTransform(f, docs[p].v["text"]).exc # ""
             THEN obj' = obj /\ pc' = "raised"
             ELSE /\ pc' = "translate"
                  /\ obj' = WithDocs(obj,
                                [docs EXCEPT ![p] = TextRewritten(@, f)])

C4_StepFromStart ==
    ( /\ pc = "translate" /\ ti <= Len(_translators)
      /\ (pc' # pc \/ ti' # ti)
      /\ IsIndexCPath(_translators[ti].cpath) )
    => IF HasDocs(obj)
       THEN IndexStep(PositionFromStart(_translators[ti].cpath[2].val.v,
                                        Len(DocsOf(obj))))
       ELSE obj' = obj /\ pc' = "translate"

C4_StepPython ==
    ( /\ pc = "translate" /\ ti <= Len(_translators)
      /\ (pc' # pc \/ ti' # ti)
      /\ IsIndexCPath(_translators[ti].cpath) )
    => IF HasDocs(obj)
       THEN IndexStep(PythonPosition(_translators[ti].cpath[2].val.v,
                                     Len(DocsOf(obj))))
       ELSE obj' = obj /\ pc' = "translate"

\* C4 as stated: with path (response, docs, N, field) only the document at
\* position N (0 <= N < number of documents) is rewritten, and for any
\* other N nothing is rewritten and nothing raised.
C4_IndexFromStart == [][C4_StepFromStart]_vars

\* C4 amended: N names the document at Python position N, so that N < 0
\* counts from the end (-1 is the last document); only that document's
\* field is rewritten, and nothing is rewritten and nothing raised when
\* N is outside -len .. len-1.
C4_IndexPython == [][C4_StepPython]_vars

\* C4 witness: N = -1 rewrote the last of two documents only
C4_Witness ==
    /\ pc = "translate"
    /\ ti = 2
    /\ _translators = CompileTranslators(<<Translator(IndexPath(-1), "len")>>)
    /\ HasDocs(data)
    /\ DocsOf(data) = <<Doc1, Doc2>>
    /\ DocsOf(obj) = <<Doc1, [Doc2 EXCEPT !.v["text"] = JInt(3)]>>

\* whether component c, a Wildcard or a Matcher, takes the raw key k
Satisfies(c, k) ==
    c.kind = "Wildcard" \/ CallPredicate(c.val.v, k) = Returned(TRUE)

\* a pass (response, docs, X, Y) that completes, where X or Y is a
\* predicate, X is a predicate or the wildcard, and Y a predicate or text
C5_Step ==
    ( /\ pc = "translate" /\ ti <= Len(_translators) /\ pc' = "translate"
      /\ Len(_translators[ti].cpath) = 4
      /\ _translators[ti].cpath[4] = Attribute(JStr("response"))
      /\ _translators[ti].cpath[3] = Attribute(JStr("docs"))
      /\ _translators[ti].cpath[2].kind \in {"Wildcard", "Matcher"}
      /\ \/ _translators[ti].cpath[1].kind = "Matcher"
         \/ _translators[ti].cpath[1] = Attribute(JStr("text"))
      /\ "Matcher" \in {_translators[ti].cpath[1].kind,
                        _translators[ti].cpath[2].kind} )
    => LET X == _translators[ti].cpath[2]
           Y == _translators[ti].cpath[1]
           f == _translators[ti].cb.v
           Leaf(doc) ==
               JMap([k \in DOMAIN doc.v |->
                        IF IF Y.kind = "Matcher" THEN Satisfies(Y, JStr(k))
                           ELSE k = "text"
                        THEN CallTransform(f, doc.v[k]).val
                        ELSE doc.v[k]])
       IN  obj' = IF HasDocs(obj)
                  THEN WithDocs(obj, [i \in 1..Len(DocsOf(obj)) |->
                            IF Satisfies(X, JInt(i - 1))
                            THEN Leaf(DocsOf(obj)[i])
                            ELSE DocsOf(obj)[i]])
                  ELSE obj

\* C5: a predicate component matches exactly the entries whose raw key
\* (string key of a mapping, integer position of a sequence) satisfies the
\* function: as the leaf only the values under satisfying keys are
\* rewritten, at an intermediate level only the children under satisfying
\* keys are descended into.
C5_Predicate == [][C5_Step]_vars

\* C5 witness: k == 1 over the documents reached the second one only,
\* then startswith('te') as the leaf rewrote text and term, not id or hits
C5_Witness ==
    /\ pc = "translate"
    /\ ti = 3
    /\ _translators = CompileTranslators(
          <<Translator(CallbackPath, "len"), Translator(CallbackLeafPath, "dbl")>>)
    /\ HasDocs(data)
    /\ DocsOf(data) = <<Doc1, Doc2>>
    /\ DocsOf(obj) =
          <<[Doc1 EXCEPT !.v["text"] = JStr("hellohello"), !.v["term"] = JStr("xx")],
            [Doc2 EXCEPT !.v["text"] = JInt(6)]>>

\* the instance attribute that stores attribute k of a Response
\* (Response.numFound and Response.start read _numFound and _start)
Stored(k) ==
    CASE k = "numFound" -> "_numFound"
      [] k = "start" -> "_start"
      [] k = "maxScore" -> "_maxScore"
      [] OTHER -> k

\* the value attribute k takes when v is assigned to it
Converted(k, v) ==
    CASE k \in {"numFound", "start"} -> PyInt(v).val
      [] k = "maxScore" -> PyFloat(v).val
      [] OTHER -> v

\* Response r has attribute k, and it holds v
Exposes(r, k, v) == Stored(k) \in DOMAIN r.v /\ r.v[Stored(k)] = Converted(k, v)

\* C6: with no declared translators the results of the Response are
\* exactly the documents of response.docs of the decoded tree, with the
\* same fields and values in the same order.
C6_Identity ==
    (pc = "returned" /\ response # JNull /\ _translators = <<>>
        /\ HasDocs(data))
    => response.v["results"] = JList(DocsOf(data))

\* a non-empty top-level mapping whose response value, if any, is a
\* mapping with integer numFound and start
ResponseShaped(tree) ==
    /\ tree.t = "map"
    /\ DOMAIN tree.v # {}
    /\ "response" \in DOMAIN tree.v =>
          /\ tree.v["response"].t = "map"
          /\ \A k \in {"numFound", "start"} \cap DOMAIN tree.v["response"].v :
                tree.v["response"].v[k].t = "int"

\* the rest of the parse call once translate() is over, on such a tree
C7_Step ==
    (pc = "translate" /\ ti > Len(_translators) /\ ResponseShaped(obj)) =>
        LET sub == IF "response" \in DOMAIN obj.v
                   THEN obj.v["response"].v ELSE Absent
        IN  /\ pc' = "returned"
            /\ response'.t = "Response"
            /\ response'.v["header"] =
                  IF "responseHeader" \in DOMAIN obj.v
                  THEN obj.v["responseHeader"] ELSE JNull
            /\ response'.v["results"] =
                  IF "docs" \in DOMAIN sub THEN sub["docs"] ELSE JList(<<>>)
            /\ \A k \in {"numFound", "start"} \cap DOMAIN sub :
                  Exposes(response', k, sub[k])

\* C7: for a non-empty tree the Response returned has the value of
\* responseHeader as header (nothing when absent), the docs of the
\* response sub-mapping as results (empty when response or docs is
\* absent) and the numFound and start of the response sub-mapping; a tree
\* without response and responseHeader raises nothing.
C7_Assembled == [][C7_Step]_vars

\* the keys left in the top-level tree and in the response sub-mapping
RemainingTop(tree) ==
    [k \in (DOMAIN tree.v) \ {"responseHeader", "response"} |-> tree.v[k]]
RemainingSub(tree) ==
    IF "response" \in DOMAIN tree.v
    THEN [k \in (DOMAIN tree.v["response"].v) \ {"docs"} |->
              tree.v["response"].v[k]]
    ELSE Absent

C8_StepEvery ==
    (pc = "translate" /\ ti > Len(_translators) /\ pc' = "returned"
        /\ response' # JNull)
    => /\ \A k \in (DOMAIN RemainingTop(obj)) \ {"name"} :
              Exposes(response', k, RemainingTop(obj)[k])
       /\ \A k \in (DOMAIN RemainingSub(obj)) \ {"name"} :
              Exposes(response', k, RemainingSub(obj)[k])
       /\ "name" \notin DOMAIN response'.v

C8_StepTopWins ==
    (pc = "translate" /\ ti > Len(_translators) /\ pc' = "returned"
        /\ response' # JNull)
    => /\ \A k \in (DOMAIN RemainingTop(obj)) \ {"name"} :
              Exposes(response', k, RemainingTop(obj)[k])
       /\ \A k \in (DOMAIN RemainingSub(obj)) \ {"name"} :
              k \notin DOMAIN RemainingTop(obj) =>
                  Exposes(response', k, RemainingSub(obj)[k])
       /\ "name" \notin DOMAIN response'.v

\* C8 as stated: every key left in the top-level tree or in the response
\* sub-mapping is an attribute of the Response holding its value, except
\* name, which is never set.
C8_EveryKey == [][C8_StepEvery]_vars

\* C8 amended: every key left in the top-level tree, and every key left in
\* the response sub-mapping that is not also a top-level key, is an
\* attribute holding its value (numFound and start as integers); for a key
\* in both mappings the attribute holds the top-level value; name is never
\* set.
C8_TopLevelWins == [][C8_StepTopWins]_vars

\* C8 witness: termVectors is in both mappings, the attribute holds the
\* top-level value, numFound and start are set, name is not
C8_Witness ==
    /\ pc = "returned"
    /\ response # JNull
    /\ data.t = "map"
    /\ "termVectors" \in DOMAIN data.v
    /\ data.v["termVectors"] = JStr("some data")
    /\ "response" \in DOMAIN data.v
    /\ data.v["response"].t = "map"
    /\ "termVectors" \in DOMAIN data.v["response"].v
    /\ data.v["response"].v["termVectors"] = JStr("inner")
    /\ response.v["termVectors"] = JStr("some data")
    /\ response.v["_numFound"] = JInt(1)
    /\ "name" \notin DOMAIN response.v

C9_Step ==
    (pc = "translate" /\ ti > Len(_translators) /\ ~Truthy(obj)) =>
        (pc' = "returned" /\ response' = JNull /\ exc' = "")

\* C9: when the root of the tree is empty or otherwise falsy once the
\* translators have run, the parse call returns None: no Response is
\* constructed.
C9_FalsyRoot == [][C9_Step]_vars

\* C9 witness: two translators ran over an empty mapping, None came back
C9_Witness ==
    /\ pc = "returned"
    /\ response = JNull
    /\ data = JMap(Absent)
    /\ Len(_translators) = 2
    /\ ti = 3

\* C10: the Response returned carries exactly the params and the query
\* given to the parse call (an empty mapping for params None), whatever
\* the decoded tree holds.
C10_Stamped ==
    (pc = "returned" /\ response # JNull) =>
        /\ response.v["_params"] =
              IF params = JNull THEN JMap(Absent) ELSE params
        /\ response.v["_query"] = query

----------------------------------------------------------------------------
(* Transform failures as the caller sees them *)

\* the first document (1-based) whose text field the translator reaches
\* and makes its transform raise, 0 if none
FirstFailing(translator, docs) ==
    LET S == {i \in 1..Len(docs) :
                /\ HasText(docs[i])
                /\ ReachesText(translator.cpath, i - 1, Len(docs))
                /\ CallTransform(translator.cb.v, docs[i].v["text"]).exc # ""}
    IN  IF S = {} THEN 0 ELSE CHOOSE i \in S : \A j \in S : i <= j

\* a pass over the text fields (whatever selects the documents) that raises
TextPassRaises ==
    /\ pc = "translate"
    /\ ti <= Len(_translators)
    /\ pc' = "raised"
    /\ HasDocs(obj)
    /\ _translators[ti].cpath[1] = Attribute(JStr("text"))

\* the exception at the caller is an error type of the parser's own
C11_StepWrapped ==
    TextPassRaises =>
        /\ FirstFailing(_translators[ti], DocsOf(obj)) > 0
        /\ exc' = "TranslationError"

\* the exception at the caller is the one the transform raised
C11_StepOwn ==
    TextPassRaises =>
        LET k == FirstFailing(_translators[ti], DocsOf(obj)) IN
        /\ k > 0
        /\ exc' = CallTransform(_translators[ti].cb.v,
                                DocsOf(obj)[k].v["text"]).exc
        /\ exc' # "TranslationError"

\* C11 as stated: a transform failure reaches the caller as a typed
\* translation error that wraps the transform's failure and identifies the
\* translator, the path and the key.
C11_TranslationError == [][C11_StepWrapped]_vars

\* C11 as amended: a transform failure reaches the caller as the
\* transform's own exception (the TypeError of len or of x - 1), not
\* wrapped in any error type of the parser.
C11_OwnFailure == [][C11_StepOwn]_vars

\* C11 witness: len raised TypeError on the integer text of the document
\* that the index path selects
C11_Witness ==
    /\ pc = "raised"
    /\ exc = "TypeError"
    /\ ti = 1
    /\ declared = <<Translator(IndexPath(1), "len")>>
    /\ HasDocs(obj)
    /\ DocsOf(obj) = <<Doc1, Doc4>>

----------------------------------------------------------------------------
(* Lookup misses and shape mismatches *)

\* the values directly inside a value; a string holds its characters
Children(x) ==
    CASE x.t = "map" -> {x.v[k] : k \in DOMAIN x.v}
      [] x.t = "list" -> {x.v[i] : i \in 1..Len(x.v)}
      [] x.t = "str" ->
            IF Len(x.v) > 1
            THEN {JStr(SubSeq(x.v, i, i)) : i \in 1..Len(x.v)} ELSE {}
      [] OTHER -> {}

\* a value and everything inside it
RECURSIVE Nodes(_)
Nodes(x) == {x} \cup UNION {Nodes(c) : c \in Children(x)}

AllNodes(roots) == UNION {Nodes(roots[i]) : i \in 1..Len(roots)}

\* the transform raises for no value inside the roots
TransformTotal(cb, roots) ==
    \A x \in AllNodes(roots) : \A c \in Children(x) :
        CallTransform(cb.v, c).exc = ""

\* the predicates of the path raise for no key inside the roots
PredicatesTotal(cpath, roots) ==
    \A i \in 1..Len(cpath) :
        cpath[i].kind = "Matcher" =>
            \A x \in AllNodes(roots) : \A k \in 1..Len(BaseKeys(x)) :
                CallPredicate(cpath[i].val.v, BaseKeys(x)[k]).exc = ""

\* the component cannot apply to the node: the node is a scalar, or the
\* key is missing, or the position is out of range
Mismatch(component, node) ==
    \/ node.t \notin {"map", "list"}
    \/ /\ component.kind = "Attribute"
       /\ \/ /\ node.t = "map"
             /\ ~(component.val.t = "str" /\ component.val.v \in DOMAIN node.v)
          \/ /\ node.t = "list"
             /\ ~( /\ component.val.t = "int"
                   /\ component.val.v < Len(node.v)
                   /\ component.val.v >= 0 - Len(node.v) )

\* a pass whose predicates and transform do not raise
C12_Step ==
    ( /\ pc = "translate"
      /\ ti <= Len(_translators)
      /\ Len(_translators[ti].cpath) >= 1
      /\ TransformTotal(_translators[ti].cb, objs)
      /\ PredicatesTotal(_translators[ti].cpath, objs) )
    => /\ pc' = "translate"
       /\ exc' = ""
       /\ \A i \in 1..Len(_translators[ti].cpath) : \A x \in AllNodes(objs) :
              Mismatch(_translators[ti].cpath[i], x) =>
                  ValueKeys(_translators[ti].cpath[i], x) = Returned(<<>>)

\* C12: lookup misses and shape mismatches are silent: with predicates and
\* a transform that do not raise, a pass over any tree of mappings,
\* sequences and scalars (strings included) completes without raising, and
\* a component applied to a node of the wrong type, a missing key or an
\* out-of-range position matches nothing.
C12_SilentMisses == [][C12_Step]_vars

----------------------------------------------------------------------------
(* Path compilation *)

\* the matcher of one path element
MatcherOf(element) ==
    CASE element = JNull -> Wildcard
      [] element.t = "callable" -> [kind |-> "Matcher", val |-> element]
      [] OTHER -> [kind |-> "Attribute", val |-> element]

\* C13: compile_path gives one matcher per element of the path (None a
\* Wildcard, a callable a Matcher holding it, anything else an Attribute
\* holding it), as many as the path has elements, in reversed order:
\* component 0 is the matcher of the leaf element.
C13_CompiledReversed ==
    /\ Len(_translators) = Len(declared)
    /\ \A i \in 1..Len(declared) :
          LET path == declared[i].path
              cpath == _translators[i].cpath
          IN  /\ Len(cpath) = Len(path)
              /\ \A j \in 1..Len(path) :
                    cpath[Len(path) + 1 - j] = MatcherOf(path[j])
              /\ Len(path) >= 1 => cpath[1] = MatcherOf(path[Len(path)])
              /\ _translators[i].cb = declared[i].cb

\* C13 witness: a path of a key and a predicate compiled, predicate first
C13_Witness ==
    /\ pc = "constructed"
    /\ declared = <<Translator(<<JStr("docs"), Callable("startswith_te")>>,
                               "len")>>
    /\ _translators[1].cpath[1].kind = "Matcher"
    /\ _translators[1].cpath[2] = Attribute(JStr("docs"))

----------------------------------------------------------------------------
(* Sharing one parser between concurrent calls *)

\* a call that is over returned, raised and left its tree as it would have
\* with nothing else running, on the parser as constructed
SameAsAlone(call) ==
    LET alone == CallAlone(CompileTranslators(declared), call.data,
                           call.params, call.query)
    IN  /\ call.exc = alone.exc
        /\ call.response = alone.val
        /\ call.obj = alone.obj

\* C14: a parse call never modifies the translator list or its compiled
\* paths: whatever the interleaving of concurrent calls on one parser with
\* separate trees, they stay what construction produced, and every call
\* gives the result it gives when run alone.
C14_SharedReadOnly ==
    /\ [](_translators = CompileTranslators(declared))
    /\ [][_translators' = _translators]_vars
    /\ [](\A c \in Callers :
            calls[c].pc \in {"returned", "raised"} => SameAsAlone(calls[c]))

\* C14 witness: a call returned its rewritten documents while another call
\* on the same two translators was between its two passes
C14_Witness ==
    /\ declared = <<Translator(TextPath, "len"), Translator(TextPath, "dec")>>
    /\ calls[1].pc = "translate"
    /\ calls[1].ti = 2
    /\ calls[1].data = QueryTree(<<Doc2, Doc1>>)
    /\ calls[2].pc = "returned"
    /\ calls[2].data = QueryTree(<<Doc1>>)
    /\ calls[2].response.v["results"] =
          JList(<<[Doc1 EXCEPT !.v["text"] = JInt(4)]>>)

----------------------------------------------------------------------------
(* Batches *)

\* response.start and response.numFound, and len(response.results)
StartOf(r) == r.v["_start"].v
NumFoundOf(r) == r.v["_numFound"].v
HoldsOf(r) == ResultsLen(r.v["results"]).val

\* a Response that came out of a query with a query string, so that it can
\* be asked for another batch
Batch(r) ==
    /\ r # JNull
    /\ {"_start", "_numFound", "results", "_params"} \subseteq DOMAIN r.v
    /\ "q" \in DOMAIN r.v["_params"].v

\* the step posted one more request, and the parameters of that request
Sent == Len(posted') = Len(posted) + 1
SentBody == posted'[Len(posted')].body

\* a call of next_batch on a batch, against what it should send and return
C15_Step ==
    NextBatch /\ Batch(response) =>
        /\ Sent
        /\ RequestParam(SentBody, "start", JNull)
                = JInt(StartOf(response) + HoldsOf(response))
        /\ Batch(response')
        /\ StartOf(response') = StartOf(response) + HoldsOf(response)

\* C15: next_batch on a Response that starts at offset s and holds n
\* documents sends the query again with start = s + n and returns the
\* Response that starts there, whichever parser produced the Response and
\* whichever batch it is.
C15_NextStart == [][C15_Step]_vars

\* a call of next_batch on the batch that ends the matches
C16_Step ==
    /\ NextBatch
    /\ Batch(response)
    /\ StartOf(response) + HoldsOf(response) >= NumFoundOf(response)
    => response' = JNull /\ exc' = ""

\* C16: next_batch on a Response with which every match of the query has
\* been returned (its offset plus its documents reach numFound) returns
\* None.
C16_EndsWithNone == [][C16_Step]_vars

\* the values a request carries for a parameter
ValuesOf(body, key) == {pr[2] : pr \in {x \in body : x[1] = key}}
KeysOf(body) == {pr[1] : pr \in body}

\* a call of next_batch on a batch, against the request of the first query
C17_Step ==
    NextBatch /\ Batch(response) =>
        /\ Sent
        /\ \A key \in (KeysOf(SentBody) \cup KeysOf(posted[1].body)) \ {"start"} :
              ValuesOf(SentBody, key) = ValuesOf(posted[1].body, key)

\* C17: apart from start, the request next_batch sends carries the
\* parameters of the original query with their values, and the stored params
\* of the Response it was called on are the ones the next call starts from.
C17_SameQuery == [][C17_Step]_vars

\* a call of previous_batch on a batch
C18_Step ==
    PreviousBatch /\ Batch(response) =>
        /\ StartOf(response) = 0 <=> (response' = JNull /\ exc' = "")
        /\ StartOf(response) = 0 => posted' = posted
        /\ StartOf(response) # 0 =>
              /\ Sent
              /\ Batch(response')
              /\ StartOf(response') >= 0
              /\ LET again == next_batch(response', index) IN
                 /\ Len(again.sent) = 1
                 /\ RequestParam(again.sent[1].body, "start", JNull)
                        = JInt(StartOf(response))

\* C18: previous_batch returns None and sends nothing exactly when the
\* Response starts at offset 0; otherwise it returns a Response that starts
\* at an offset of 0 at least, from which next_batch asks for the offset of
\* the Response previous_batch was called on.
C18_PreviousBatch == [][C18_Step]_vars

----------------------------------------------------------------------------
(* Deleting and committing *)

\* the ids and the queries a call of delete was given
GivenIds(id, ids) ==
    (IF id # JNull THEN <<id>> ELSE <<>>) \o (IF ids # JNull THEN ids.v ELSE <<>>)
GivenQueries(queries) == IF queries # JNull THEN queries.v ELSE <<>>

\* the one request that lists them
DeleteRequest(given, queries) ==
    "<delete>\n" \o DeleteLines("id", given) \o DeleteLines("query", queries)
        \o "</delete>"

\* the call a step made, of the method named
Called(method) ==
    pc = "connected" /\ pc' # "connected" /\ calls'[1].method = method

\* a call of delete, against the one request it should post
C19_Step ==
    Called("delete") /\ CommitControl(calls'[1].kw).exc = "" =>
        LET call == calls'[1]
            given == GivenIds(call.id, call.ids)
            queries == GivenQueries(call.queries)
        IN  IF given = <<>> /\ queries = <<>>
            THEN posted' = posted /\ exc' = ""
            ELSE Sent /\ SentBody = DeleteRequest(given, queries)

\* C19: delete(id, ids, queries) with commit-control arguments that go
\* together posts one update request that lists every id and every query
\* it was given, and posts nothing when it was given none of them, commit
\* or optimize asked for or not.
C19_DeleteUsesAll == [][C19_Step]_vars

\* s holds part somewhere
Contains(s, part) ==
    \E i \in 1..(Len(s) - Len(part) + 1) : SubSeq(s, i, i + Len(part) - 1) = part

\* the options a commit or optimize element sets to false, and the ones the
\* query of an update request sets to false
ElementOptions(element) ==
    {o \in {"waitFlush", "waitSearcher"} : Contains(element, o \o "=\"false\"")}
RequestOptions(items) ==
    {o \in {"waitFlush", "waitSearcher"} :
        \E i \in 1..Len(items) : items[i] = <<o, "false">>}

\* a call of commit or optimize, against the wrapper of the update operations
C20_Step ==
    \A verb \in {"commit", "optimize"} :
        Called(verb) =>
            LET call == calls'[1]
                control == CommitControl(
                    [k \in {verb, "wait_flush", "wait_searcher"} |->
                        IF k = verb THEN JBool(TRUE) ELSE call[k]])
            IN  ElementOptions(SentBody) = RequestOptions(control.query)

\* C20: for every wait_flush and wait_searcher, the options commit() and
\* optimize() put in their element are the options an update operation
\* called with commit=True or optimize=True and the same two arguments puts
\* on its request.
C20_SameOptions == [][C20_Step]_vars

----------------------------------------------------------------------------
(* MultiDict *)

\* the calls MultiDict shares with the standard dict
SharedCalls ==
    {"__setitem__", "__getitem__", "get", "setdefault", "update", "pop",
     "popitem", "items", "values"}

\* every key holds at most one value
SingleValued(self) == \A i \in 1..Len(self) : Len(self[i][2]) <= 1

\* the MultiDict holds what the dict holds: the same keys, each with the one
\* value the dict has for it
SameContents(self, d) ==
    /\ Len(self) = Len(d)
    /\ \A i \in 1..Len(self) : self[i][1] = d[i][1] /\ self[i][2] = <<d[i][2]>>

\* a shared call on a MultiDict that holds what the dict holds gives what the
\* dict gives, and the two hold the same afterwards
C21_Step ==
    (SameContents(obj, data) /\ calls'[1].method \in SharedCalls) =>
        /\ exc' = params'.exc
        /\ response' = params'.val
        /\ SingleValued(obj') => SameContents(obj', data')

\* C21: while every key holds at most one value, every operation MultiDict
\* shares with the standard dict (__setitem__, __getitem__, get, setdefault,
\* update, pop, popitem, items, values) returns the same result or raises
\* the same kind of error as the dict given the same sequence, and leaves
\* the same key-to-value contents.
C21_SameAsDict == [][C21_Step]_vars

\* the key of the call is one a value has been entered for, by additem,
\* __setitem__, setdefault, update or the constructor, and nothing has been
\* taken out since
EnteredFor(k) == ti = 0 /\ Has(index, k)

\* a read of such a key gives the value entered last, and setdefault(k, v)
\* gives it too; for a key with no value entered, setdefault gives v and k
\* holds v afterwards
C22_Step ==
    LET call == calls'[1] IN
    /\ (call.method \in {"__getitem__", "get"} /\ EnteredFor(call.key)) =>
            exc' = "" /\ response' = Entry(index, call.key)
    /\ (call.method = "setdefault" /\ EnteredFor(call.key)) =>
            /\ exc' = ""
            /\ response' = Entry(index, call.key)
            /\ obj' = obj
    /\ (call.method = "setdefault" /\ ti = 0 /\ ~Has(index, call.key)) =>
            /\ exc' = ""
            /\ response' = call.value
            /\ Has(obj', call.key)
            /\ Entry(obj', call.key) = <<call.value>>

\* C22: after any sequence of additem, __setitem__, setdefault and update
\* calls, __getitem__(k) and get(k) return the value most recently entered
\* for k, and setdefault(k, v) returns the last value entered for k when k
\* is present, and v, which it stores, when k is not.
C22_LastEntered == [][C22_Step]_vars

\* __getitem__ has answered for a key holding two different values
C22_Witness ==
    /\ calls # <<>>
    /\ calls[1].method = "__getitem__"
    /\ ti = 0
    /\ Has(obj, calls[1].key)
    /\ Len(Entry(obj, calls[1].key)) = 2
    /\ Entry(obj, calls[1].key)[1] # Entry(obj, calls[1].key)[2]
    /\ response = Entry(obj, calls[1].key)[2]

\* the default a call is given: None when it is left out
GivenDefault(call) == IF call.value = Missing THEN JNull ELSE call.value

\* pop and getone, by the number of values the key holds before the call
C23_Step ==
    LET call == calls'[1]
        k == call.key
    IN  call.method \in {"pop", "getone"} =>
        /\ exc' = "MultipleValueError" <=> (Has(obj, k) /\ Len(Entry(obj, k)) > 1)
        /\ (Has(obj, k) /\ Len(Entry(obj, k)) = 1) =>
                /\ exc' = ""
                /\ response' = Entry(obj, k)[1]
                /\ obj' = IF call.method = "pop" THEN Remove(obj, k) ELSE obj
        /\ ~Has(obj, k) =>
                /\ exc' = ""
                /\ response' = GivenDefault(call)
                /\ obj' = obj

\* C23: pop(k) and getone(k) raise MultipleValueError exactly when k holds
\* more than one value; when k holds one value they return it, pop also
\* removing k; when k is absent they return the given default.
C23_PopGetone == [][C23_Step]_vars

\* pop has raised MultipleValueError for a key that held two values
C23_Witness ==
    /\ calls # <<>>
    /\ calls[1].method = "pop"
    /\ exc = "MultipleValueError"
    /\ ~Has(obj, calls[1].key)

----------------------------------------------------------------------------
(* XML responses *)

\* the name an element is given
NameOf(e) == AttrGet(e.attrs, "name", "")

\* the number a date string has from one place to another
DateNumber(s, from, to) == DigitsValue(SubSeq(s, from, to), 0)

\* what an element stands for, by its tag
RECURSIVE Typed(_)
Typed(e) ==
    LET kids == [i \in 1..Len(e.children) |-> Typed(e.children[i])] IN
    CASE e.name \in {"int", "long"} -> JInt(DigitsValue(Strip(e.chars), 0))
      [] e.name = "str" -> JStr(e.chars)
      [] e.name = "bool" -> JBool(Strip(e.chars) = "true")
      [] e.name = "date" ->
            [t |-> "datetime",
             v |-> <<DateNumber(e.chars, 1, 4), DateNumber(e.chars, 6, 7),
                     DateNumber(e.chars, 9, 10), DateNumber(e.chars, 12, 13),
                     DateNumber(e.chars, 15, 16), DateNumber(e.chars, 18, 19)>>]
      [] e.name = "arr" -> JList(kids)
      [] e.name = "lst" ->
            MultiDict([i \in 1..Len(kids) |-> <<NameOf(e.children[i]), kids[i]>>])
      [] e.name = "doc" ->
            JMap([k \in {NameOf(e.children[i]) : i \in 1..Len(kids)} |->
                    kids[CHOOSE i \in 1..Len(kids) : NameOf(e.children[i]) = k]])
      [] e.name = "result" -> Results(kids)

\* the response with the header, the result and the other children of the
\* document, stamped with the params and the query of the call
C24_Expected ==
    LET header == data.children[1]
        result == data.children[2]
        got == response.v
    IN  /\ exc = ""
        /\ response.t = "Response"
        /\ got["_params"] = params
        /\ got["_query"] = query
        /\ got["header"] = Typed(header)
        /\ got["_numFound"]
             = JInt(DigitsValue(AttrGet(result.attrs, "numFound", ""), 0))
        /\ got["_start"] = JInt(DigitsValue(AttrGet(result.attrs, "start", ""), 0))
        /\ got["results"].t = "Results"
        /\ got["results"].v.items = Typed(result).v.items
        /\ \A i \in 3..Len(data.children) :
                /\ NameOf(data.children[i]) \in DOMAIN got
                /\ LET child == got[NameOf(data.children[i])] IN
                   IF child.t = "Results"
                   THEN child.v.items = Typed(data.children[i]).v.items
                   ELSE child = Typed(data.children[i])

\* C24: parse_xml_response on a well-formed response document returns a
\* Response stamped with the given params and query, whose header is the
\* mapping built from the responseHeader list, whose numFound and start are
\* the integers of the attributes of the result element, whose results are
\* the doc mappings in document order with every field typed by its tag, and
\* on which every additional named child of the response element is an
\* attribute.
C24_XmlResponse == pc # "start" => C24_Expected

----------------------------------------------------------------------------
(* One translation pass *)

\* a position counted from the start
FromStart(node, key) ==
    IF key.t = "int" /\ key.v < 0 THEN JInt(key.v + Len(node.v)) ELSE key

\* the keys of the children of a node that a component matches
Matched(component, node) ==
    CASE component.kind = "Wildcard" ->
            {BaseKeys(node)[i] : i \in 1..Len(BaseKeys(node))}
      [] component.kind = "Attribute" ->
            IF Subscript(node, component.val).exc = ""
            THEN {FromStart(node, component.val)} ELSE {}
      [] component.kind = "Matcher" ->
            {k \in {BaseKeys(node)[i] : i \in 1..Len(BaseKeys(node))} :
                CallPredicate(component.val.v, k).val = TRUE}

\* the children, by address, that a component matches in a set of nodes
MatchedIn(top, component, addrs) ==
    UNION {{Append(a, k) : k \in Matched(component, GetAt(top, a))} : a \in addrs}

\* the working set after d container components, outermost first
RECURSIVE WorkingSet(_, _, _)
WorkingSet(top, cpath, d) ==
    IF d = 0 THEN {<<JInt(i - 1)>> : i \in 1..Len(top.v)}
    ELSE MatchedIn(top, cpath[Len(cpath) - d + 1], WorkingSet(top, cpath, d - 1))

\* the leaves: what the leaf component matches in the final working set
Leaves(top, cpath) ==
    MatchedIn(top, cpath[1], WorkingSet(top, cpath, Len(cpath) - 1))

\* the tree with transform(value) in the place of every leaf and nothing
\* else changed
RECURSIVE Transformed(_, _, _, _)
Transformed(node, addr, leaves, cb) ==
    LET Sub(child, a) == IF a \in leaves THEN CallTransform(cb.v, child).val
                         ELSE Transformed(child, a, leaves, cb)
    IN  CASE node.t = "map" ->
                JMap([k \in DOMAIN node.v |->
                        Sub(node.v[k], Append(addr, JStr(k)))])
          [] node.t = "list" ->
                JList([i \in 1..Len(node.v) |->
                        Sub(node.v[i], Append(addr, JInt(i - 1)))])
          [] OTHER -> node

\* a pass whose predicates and transform do not raise
C25_Step ==
    ( /\ pc = "translate"
      /\ ti <= Len(_translators)
      /\ Len(_translators[ti].cpath) >= 1
      /\ TransformTotal(_translators[ti].cb, objs)
      /\ PredicatesTotal(_translators[ti].cpath, objs) )
    => /\ exc' = ""
       /\ objs' = Transformed(JList(objs), <<>>,
                              Leaves(JList(objs), _translators[ti].cpath),
                              _translators[ti].cb).v

\* C25: one pass with a compiled path of length n >= 1 over one or more
\* roots descends through the n-1 container components outermost first,
\* the working set becoming all matching children of all nodes in it, and
\* then overwrites node[key] = transform(value) for exactly the pairs the
\* leaf component matches in the final working set, each once; with n = 1
\* the leaf component is applied to every root; nothing else is modified.
C25_OnePass == [][C25_Step]_vars

====
